---- MODULE Spec2Model ----
(***************************************************************************)
(* Cayley-Dickson hypercomplex numbers (crate `complex`).                  *)
(*                                                                         *)
(* A value of depth 0 is a scalar; a value of depth n+1 is a record        *)
(* [re, im] of two values of depth n (struct Complex<T>).  The Rust type   *)
(* parameter that selects the impl is the explicit depth argument of       *)
(* every operator below.  Scalars are exact rationals <<num, den>> in      *)
(* lowest terms with den > 0; the result of a floating-point division by   *)
(* zero (an infinity or a NaN) is the single token NonFinite, which every  *)
(* later addition, subtraction and multiplication keeps.                   *)
(***************************************************************************)
EXTENDS Integers, Sequences, FiniteSets, TLC

VARIABLES d, a, b, c, s, num, items, fwd, op, r

vars == <<d, a, b, c, s, num, items, fwd, op, r>>

(***************************************************************************)
(* Bounds of the checked input sets.                                       *)
(***************************************************************************)
MaxLeaf == 2
MaxSample == 5
MaxTripLeaf == 1

Depths == 1..3

(***************************************************************************)
(* Scalar base case (f32 / f64 under exact arithmetic).                    *)
(***************************************************************************)
NonFinite == <<0, 0>>

Abs(n) == IF n < 0 THEN -n ELSE n

RECURSIVE GCD(_, _)
GCD(m, n) == IF n = 0 THEN m ELSE GCD(n, m % n)

Norm(n, m) ==
    IF m = 0 THEN NonFinite
    ELSE LET g == GCD(Abs(n), Abs(m))
             sg == IF m < 0 THEN -1 ELSE 1
         IN <<(sg * n) \div g, (sg * m) \div g>>

Float(n) == <<n, 1>>

IsFinite(x) == x[2] # 0

SAdd(x, y) == IF IsFinite(x) /\ IsFinite(y)
              THEN Norm(x[1] * y[2] + y[1] * x[2], x[2] * y[2]) ELSE NonFinite

SNeg(x) == IF IsFinite(x) THEN <<-x[1], x[2]>> ELSE NonFinite

SSub(x, y) == IF IsFinite(x) /\ IsFinite(y)
              THEN Norm(x[1] * y[2] - y[1] * x[2], x[2] * y[2]) ELSE NonFinite

SMul(x, y) == IF IsFinite(x) /\ IsFinite(y)
              THEN Norm(x[1] * y[1], x[2] * y[2]) ELSE NonFinite

SDiv(x, y) == IF IsFinite(x) /\ IsFinite(y)
              THEN Norm(x[1] * y[2], x[2] * y[1]) ELSE NonFinite

(***************************************************************************)
(* Complex<T>: construction and the capability traits.                     *)
(***************************************************************************)
New(x, y) == [re |-> x, im |-> y]

RECURSIVE ComplexMacro(_)
ComplexMacro(v) ==
    IF Len(v) = 2 THEN New(v[1], v[2])
    ELSE ComplexMacro([i \in 1..(Len(v) \div 2) |-> New(v[2 * i - 1], v[2 * i])])

RECURSIVE Zero(_)
Zero(n) == IF n = 0 THEN Float(0) ELSE New(Zero(n - 1), Zero(n - 1))

RECURSIVE One(_)
One(n) == IF n = 0 THEN Float(1) ELSE New(One(n - 1), Zero(n - 1))

RECURSIVE Neg(_, _)
Neg(n, x) == IF n = 0 THEN SNeg(x) ELSE New(Neg(n - 1, x.re), Neg(n - 1, x.im))

\* Mutation of Conj: the im half is kept instead of negated.
RECURSIVE ConjKeepIm(_, _)
ConjKeepIm(n, x) == IF n = 0 THEN x ELSE New(ConjKeepIm(n - 1, x.re), x.im)

RECURSIVE Conj(_, _)
Conj(n, x) == IF n = 0 THEN x ELSE New(Conj(n - 1, x.re), Neg(n - 1, x.im))

RECURSIVE AbsSq(_, _)
AbsSq(n, x) == IF n = 0 THEN SMul(x, x)
               ELSE SAdd(AbsSq(n - 1, x.re), AbsSq(n - 1, x.im))

RECURSIVE Real(_, _)
Real(n, x) == IF n = 0 THEN x ELSE Real(n - 1, x.re)

(***************************************************************************)
(* Arithmetic operators of equal depth (ops.rs).                           *)
(***************************************************************************)
RECURSIVE Add(_, _, _)
Add(n, x, y) == IF n = 0 THEN SAdd(x, y)
                ELSE New(Add(n - 1, x.re, y.re), Add(n - 1, x.im, y.im))

RECURSIVE Sub(_, _, _)
Sub(n, x, y) == IF n = 0 THEN SSub(x, y)
                ELSE New(Sub(n - 1, x.re, y.re), Sub(n - 1, x.im, y.im))

\* Mutation of Mul: no operand is conjugated.
RECURSIVE MulPlain(_, _, _)
MulPlain(n, x, y) ==
    IF n = 0 THEN SMul(x, y)
    ELSE New(Sub(n - 1, MulPlain(n - 1, x.re, y.re),
                        MulPlain(n - 1, y.im, x.im)),
             Add(n - 1, MulPlain(n - 1, y.im, x.re),
                        MulPlain(n - 1, x.im, y.re)))

\* Mutation of Mul: other.im is not conjugated in the re half.
RECURSIVE MulNoConj(_, _, _)
MulNoConj(n, x, y) ==
    IF n = 0 THEN SMul(x, y)
    ELSE New(Sub(n - 1, MulNoConj(n - 1, x.re, y.re),
                        MulNoConj(n - 1, y.im, x.im)),
             Add(n - 1, MulNoConj(n - 1, y.im, x.re),
                        MulNoConj(n - 1, x.im, Conj(n - 1, y.re))))

RECURSIVE Mul(_, _, _)
Mul(n, x, y) ==
    IF n = 0 THEN SMul(x, y)
    ELSE New(Sub(n - 1, Mul(n - 1, x.re, y.re),
                        Mul(n - 1, Conj(n - 1, y.im), x.im)),
             Add(n - 1, Mul(n - 1, y.im, x.re),
                        Mul(n - 1, x.im, Conj(n - 1, y.re))))

\* Mutation of InvReal: the im half is inverted as well.
RECURSIVE InvRealAll(_, _)
InvRealAll(n, x) == IF n = 0 THEN SDiv(Float(1), x)
                    ELSE New(InvRealAll(n - 1, x.re), InvRealAll(n - 1, x.im))

RECURSIVE InvReal(_, _)
InvReal(n, x) == IF n = 0 THEN SDiv(Float(1), x)
                 ELSE New(InvReal(n - 1, x.re), x.im)

\* Mutation of Div: the numerator is multiplied by other, not other.conj().
DivNoConj(n, x, y) ==
    LET other_mod_sq == Mul(n, y, Conj(n, y))
    IN Mul(n, Mul(n, x, y), InvReal(n, other_mod_sq))

Div(n, x, y) ==
    LET other_mod_sq == Mul(n, y, Conj(n, y))
    IN Mul(n, Mul(n, x, Conj(n, y)), InvReal(n, other_mod_sq))

(***************************************************************************)
(* Operators mixing a value with a bare scalar (impl_algebra_with_reals).  *)
(* The depth argument is the depth of the value operand; at depth 0 the    *)
(* operator is the scalar's own.                                           *)
(***************************************************************************)
RECURSIVE AddReal(_, _, _)
AddReal(n, x, t) == IF n = 0 THEN SAdd(x, t)
                    ELSE New(AddReal(n - 1, x.re, t), x.im)

RealAdd(n, t, x) == New(AddReal(n - 1, x.re, t), x.im)

RECURSIVE SubReal(_, _, _)
SubReal(n, x, t) == IF n = 0 THEN SSub(x, t)
                    ELSE New(SubReal(n - 1, x.re, t), x.im)

\* Mutation of RealSub: the im half is kept instead of negated.
RealSubKeepIm(n, t, x) == New(AddReal(n - 1, Neg(n - 1, x.re), t), x.im)

RealSub(n, t, x) == New(AddReal(n - 1, Neg(n - 1, x.re), t), Neg(n - 1, x.im))

RECURSIVE MulReal(_, _, _)
MulReal(n, x, t) == IF n = 0 THEN SMul(x, t)
                    ELSE New(MulReal(n - 1, x.re, t), MulReal(n - 1, x.im, t))

RealMul(n, t, x) == New(MulReal(n - 1, x.re, t), MulReal(n - 1, x.im, t))

RECURSIVE DivReal(_, _, _)
DivReal(n, x, t) == IF n = 0 THEN SDiv(x, t)
                    ELSE New(DivReal(n - 1, x.re, t), DivReal(n - 1, x.im, t))

RealDiv(n, t, x) == MulReal(n, Conj(n, x), SDiv(t, AbsSq(n, x)))

(***************************************************************************)
(* Fill::from_slice and Fill::from_vec.  A call either returns a value or  *)
(* panics; the only panic is the scalar base case indexing v[0] of an      *)
(* empty slice (index out of bounds).  re is built before im, and a panic  *)
(* in either abandons the call.                                            *)
(***************************************************************************)
Returned(x) == [panic |-> FALSE, val |-> <<x>>]

Panicked == [panic |-> TRUE, val |-> <<>>]

\* Mutation of FromSlice: the first half goes to im, the second to re.
RECURSIVE FromSliceSwapHalves(_, _)
FromSliceSwapHalves(n, v) ==
    IF n = 0 THEN (IF Len(v) = 0 THEN Panicked ELSE Returned(v[1]))
    ELSE LET len == Len(v)
             half == len \div 2
             re == FromSliceSwapHalves(n - 1, SubSeq(v, half + 1, len))
             im == FromSliceSwapHalves(n - 1, SubSeq(v, 1, half))
         IN  IF re.panic \/ im.panic THEN Panicked
             ELSE Returned(New(re.val[1], im.val[1]))

RECURSIVE FromSlice(_, _)
FromSlice(n, v) ==
    IF n = 0 THEN (IF Len(v) = 0 THEN Panicked ELSE Returned(v[1]))
    ELSE LET len == Len(v)
             half == len \div 2
             re == FromSlice(n - 1, SubSeq(v, 1, half))
             im == FromSlice(n - 1, SubSeq(v, half + 1, len))
         IN  IF re.panic \/ im.panic THEN Panicked
             ELSE Returned(New(re.val[1], im.val[1]))

\* v[..half].to_vec() and v[half..len].to_vec() copy the two halves.
ToVec(v) == [i \in 1..Len(v) |-> v[i]]

RECURSIVE FromVec(_, _)
FromVec(n, v) ==
    IF n = 0 THEN (IF Len(v) = 0 THEN Panicked ELSE Returned(v[1]))
    ELSE LET len == Len(v)
             half == len \div 2
             re == FromVec(n - 1, ToVec(SubSeq(v, 1, half)))
             im == FromVec(n - 1, ToVec(SubSeq(v, half + 1, len)))
         IN  IF re.panic \/ im.panic THEN Panicked
             ELSE Returned(New(re.val[1], im.val[1]))

(***************************************************************************)
(* ImaginaryConstants.  type_name::<T>() is a scalar's name when the value *)
(* has depth 1 and Complexf64's or Complexf32's when it has depth 2.       *)
(***************************************************************************)
RECURSIVE I(_)
I(n) == IF n = 0 THEN Float(0)
        ELSE IF n - 1 = 0 THEN New(Zero(n - 1), One(n - 1))
        ELSE New(I(n - 1), Zero(n - 1))

RECURSIVE J(_)
J(n) == IF n = 0 THEN Float(0)
        ELSE IF n - 1 = 0 THEN New(Zero(n - 1), One(n - 1))
        ELSE IF n - 1 = 1 THEN New(Zero(n - 1), One(n - 1))
        ELSE New(J(n - 1), Zero(n - 1))

\* Mutation of K: over Complexf64 the lower k() goes to re.
RECURSIVE KLowerInRe(_)
KLowerInRe(n) ==
    IF n = 0 THEN Float(0)
    ELSE IF n - 1 = 0 THEN New(Zero(n - 1), One(n - 1))
    ELSE New(KLowerInRe(n - 1), Zero(n - 1))

RECURSIVE K(_)
K(n) == IF n = 0 THEN Float(0)
        ELSE IF n - 1 = 0 THEN New(Zero(n - 1), One(n - 1))
        ELSE IF n - 1 = 1 THEN New(Zero(n - 1), K(n - 1))
        ELSE New(K(n - 1), Zero(n - 1))

(***************************************************************************)
(* Display::fmt, which to_string calls.  A text is a sequence of          *)
(* one-character strings.  The floats that are not rationals are          *)
(* displayed too: -0.0, the infinities and NaN are tokens with a           *)
(* denominator that no rational has; arithmetic is never applied to them.  *)
(* Rationals are displayed when they are integers or halves, whose         *)
(* shortest decimal text is exact.                                         *)
(***************************************************************************)
NegZero == <<0, -1>>

PosInf == <<1, 0>>

NegInf == <<-1, 0>>

NaN == <<0, -2>>

DigitChars == <<"0", "1", "2", "3", "4", "5", "6", "7", "8", "9">>

RECURSIVE Decimal(_)
Decimal(m) ==
    IF m < 10 THEN <<DigitChars[m + 1]>>
    ELSE Decimal(m \div 10) \o <<DigitChars[(m % 10) + 1]>>

ScalarToString(x) ==
    IF x = NaN THEN <<"N", "a", "N">>
    ELSE IF x = PosInf THEN <<"i", "n", "f">>
    ELSE IF x = NegInf THEN <<"-", "i", "n", "f">>
    ELSE IF x = NegZero THEN <<"-", "0">>
    ELSE (IF x[1] < 0 THEN <<"-">> ELSE <<>>)
            \o Decimal(Abs(x[1]) \div x[2])
            \o (IF x[2] = 2 THEN <<".", "5">> ELSE <<>>)

RECURSIVE SplitFrom(_, _, _)
SplitFrom(str, word, out) ==
    IF str = <<>> THEN (IF word = <<>> THEN out ELSE Append(out, word))
    ELSE IF Head(str) = " "
         THEN SplitFrom(Tail(str), <<>>,
                        IF word = <<>> THEN out ELSE Append(out, word))
         ELSE SplitFrom(Tail(str), Append(word, Head(str)), out)

SplitWhitespace(str) == SplitFrom(str, <<>>, <<>>)

\* Mutation of Fmt: a negative imaginary part keeps its sign.
RECURSIVE FmtKeepSign(_, _)
FmtKeepSign(n, x) ==
    IF n = 0 THEN ScalarToString(x)
    ELSE IF n - 1 = 0 THEN
        LET real == FmtKeepSign(n - 1, x.re)
            imag == FmtKeepSign(n - 1, x.im)
        IN  IF SubSeq(imag, 1, 1) # <<"-">>
            THEN real \o <<" ", "+", " ">> \o imag \o <<"i">>
            ELSE real \o <<" ", "-", " ">> \o imag \o <<"i">>
    ELSE IF n - 1 = 1 THEN
        LET real == FmtKeepSign(n - 1, x.re)
            imag == FmtKeepSign(n - 1, x.im)
            real_split == SplitWhitespace(real)
            imag_split == SplitWhitespace(imag)
            len == Len(imag_split[3])
        IN  IF SubSeq(imag_split[1], 1, 1) # <<"-">>
            THEN real_split[1] \o <<" ">> \o real_split[2] \o <<" ">>
                    \o real_split[3] \o <<" ", "+", " ">>
                    \o imag_split[1] \o <<"j", " ">>
                    \o imag_split[2] \o <<" ">>
                    \o SubSeq(imag_split[3], 1, len - 1) \o <<"k">>
            ELSE real_split[1] \o <<" ">> \o real_split[2] \o <<" ">>
                    \o real_split[3] \o <<" ", "-", " ">>
                    \o Tail(imag_split[1]) \o <<"j", " ">>
                    \o imag_split[2] \o <<" ">>
                    \o SubSeq(imag_split[3], 1, len - 1) \o <<"k">>
    ELSE <<"(">> \o FmtKeepSign(n - 1, x.re) \o <<",", " ">>
            \o FmtKeepSign(n - 1, x.im) \o <<")">>

RECURSIVE Fmt(_, _)
Fmt(n, x) ==
    IF n = 0 THEN ScalarToString(x)
    ELSE IF n - 1 = 0 THEN
        LET real == Fmt(n - 1, x.re)
            imag == Fmt(n - 1, x.im)
        IN  IF SubSeq(imag, 1, 1) # <<"-">>
            THEN real \o <<" ", "+", " ">> \o imag \o <<"i">>
            ELSE real \o <<" ", "-", " ">> \o Tail(imag) \o <<"i">>
    ELSE IF n - 1 = 1 THEN
        LET real == Fmt(n - 1, x.re)
            imag == Fmt(n - 1, x.im)
            real_split == SplitWhitespace(real)
            imag_split == SplitWhitespace(imag)
            len == Len(imag_split[3])
        IN  IF SubSeq(imag_split[1], 1, 1) # <<"-">>
            THEN real_split[1] \o <<" ">> \o real_split[2] \o <<" ">>
                    \o real_split[3] \o <<" ", "+", " ">>
                    \o imag_split[1] \o <<"j", " ">>
                    \o imag_split[2] \o <<" ">>
                    \o SubSeq(imag_split[3], 1, len - 1) \o <<"k">>
            ELSE real_split[1] \o <<" ">> \o real_split[2] \o <<" ">>
                    \o real_split[3] \o <<" ", "-", " ">>
                    \o Tail(imag_split[1]) \o <<"j", " ">>
                    \o imag_split[2] \o <<" ">>
                    \o SubSeq(imag_split[3], 1, len - 1) \o <<"k">>
    ELSE <<"(">> \o Fmt(n - 1, x.re) \o <<",", " ">>
            \o Fmt(n - 1, x.im) \o <<")">>

(***************************************************************************)
(* FromStr.  The patterns are matched as the regex crate matches them:     *)
(* the whole text must match (^ ... $), and of all the ways to match, the  *)
(* captures are those of the first way in priority order, where a greedy   *)
(* repetition or option prefers more and an alternation prefers its first  *)
(* branch.  A list of candidates is therefore kept in priority order.      *)
(***************************************************************************)
IsDigit(ch) == ch \in {"0", "1", "2", "3", "4", "5", "6", "7", "8", "9"}

At(str, p) == IF p \in 1..Len(str) THEN str[p] ELSE ""

\* Number of consecutive digits of str from position p on.
RECURSIVE DigitRun(_, _)
DigitRun(str, p) == IF IsDigit(At(str, p)) THEN 1 + DigitRun(str, p + 1) ELSE 0

RECURSIVE Flatten(_)
Flatten(seqs) == IF seqs = <<>> THEN <<>> ELSE Head(seqs) \o Flatten(Tail(seqs))

Min(m, n) == IF m < n THEN m ELSE n

\* (?:[eE][+-]?\d{1,4})? from position p: the positions after it.
ExpEnds(str, p) ==
    (IF At(str, p) \in {"e", "E"}
     THEN LET q == IF At(str, p + 1) \in {"+", "-"} THEN p + 2 ELSE p + 1
          IN  [i \in 1..Min(4, DigitRun(str, q)) |->
                  q + Min(4, DigitRun(str, q)) - i + 1]
     ELSE <<>>) \o <<p>>

\* (?:\d+|\d*\.\d+|\d+\.\d*) from position p: the positions after it.
MantissaEnds(str, p) ==
    LET run == DigitRun(str, p)
        whole == [i \in 1..run |-> p + run - i + 1]
        fracOf(q, least) ==
            IF At(str, q) = "."
            THEN LET m == DigitRun(str, q + 1)
                 IN  [i \in 1..(m - least + 1) |-> q + 1 + m - i + 1]
            ELSE <<>>
        dotFirst == Flatten([i \in 1..(run + 1) |-> fracOf(p + run - i + 1, 1)])
        dotLast == Flatten([i \in 1..run |-> fracOf(p + run - i + 1, 0)])
    IN  whole \o dotFirst \o dotLast

\* [+-]?(?:\d+|\d*\.\d+|\d+\.\d*)(?:[eE][+-]?\d{1,4})? from position p.
FloatEnds(str, p) ==
    LET q == IF At(str, p) \in {"+", "-"} THEN p + 1 ELSE p
        ms == MantissaEnds(str, q)
    IN  Flatten([i \in 1..Len(ms) |-> ExpEnds(str, ms[i])])

NoMatch == [matched |-> FALSE, caps |-> <<>>]

\* ^(F)?(?:(F)[iI])?...$ from position p, where suffixes lists for every
\* remaining part the letters that end it (none for the real part) and an
\* absent capture is "".
RECURSIVE MatchParts(_, _, _, _)
RECURSIVE TryEnds(_, _, _, _, _, _)
MatchParts(str, p, suffixes, caps) ==
    IF suffixes = <<>>
    THEN (IF p = Len(str) + 1 THEN [matched |-> TRUE, caps |-> caps]
          ELSE NoMatch)
    ELSE TryEnds(str, p, FloatEnds(str, p), 1, suffixes, caps)

TryEnds(str, p, ends, i, suffixes, caps) ==
    IF i > Len(ends)
    THEN MatchParts(str, p, Tail(suffixes), Append(caps, <<>>))
    ELSE LET q == ends[i]
             suffix == Head(suffixes)
             next == IF suffix = {} THEN q ELSE q + 1
             here == IF suffix = {} \/ At(str, q) \in suffix
                     THEN MatchParts(str, next, Tail(suffixes),
                                     Append(caps, SubSeq(str, p, q - 1)))
                     ELSE NoMatch
         IN  IF here.matched THEN here
             ELSE TryEnds(str, p, ends, i + 1, suffixes, caps)

ComplexSuffixes == <<{}, {"i", "I"}>>

QuaternionSuffixes == <<{}, {"i", "I"}, {"j", "J"}, {"k", "K"}>>

Captures(str, suffixes) == MatchParts(str, 1, suffixes, <<>>)

(***************************************************************************)
(* The three outcomes of a parse: Ok(value), Err(ComplexParseError), and   *)
(* the panic of caps = re.captures(s).unwrap() when the text does not      *)
(* match the pattern.                                                      *)
(***************************************************************************)
Ok(x) == [out |-> "Ok", val |-> <<x>>]

Err == [out |-> "Err", val |-> <<>>]

UnwrapPanic == [out |-> "panic", val |-> <<>>]

\* The value of a run of digits read after the digits of value acc.
RECURSIVE DigitsValue(_, _)
DigitsValue(str, acc) ==
    IF str = <<>> THEN acc
    ELSE DigitsValue(Tail(str),
                     10 * acc + (CHOOSE m \in 0..9 : DigitChars[m + 1] = Head(str)))

RECURSIVE Pow10(_)
Pow10(m) == IF m = 0 THEN 1 ELSE 10 * Pow10(m - 1)

\* str::parse::<f64> of a text captured by the float pattern, or of "".
\* A text of the float pattern is always a float literal; "" is not.
ParseFloat(str) ==
    IF str = <<>> THEN Err
    ELSE LET neg == Head(str) = "-"
             p == IF Head(str) \in {"+", "-"} THEN 2 ELSE 1
             whole == DigitRun(str, p)
             dot == At(str, p + whole) = "."
             frac == IF dot THEN DigitRun(str, p + whole + 1) ELSE 0
             q == p + whole + (IF dot THEN 1 + frac ELSE 0)
             eneg == At(str, q + 1) = "-"
             ep == IF At(str, q + 1) \in {"+", "-"} THEN q + 2 ELSE q + 1
             expo == IF q > Len(str) THEN 0
                     ELSE (IF eneg THEN -1 ELSE 1)
                            * DigitsValue(SubSeq(str, ep, Len(str)), 0)
             mant == DigitsValue(SubSeq(str, p, p + whole - 1)
                        \o SubSeq(str, p + whole + 1, p + whole + frac), 0)
             shift == expo - frac
             mag == IF shift >= 0 THEN Norm(mant * Pow10(shift), 1)
                    ELSE Norm(mant, Pow10(-shift))
         IN  IF mant = 0 THEN Ok(IF neg THEN NegZero ELSE Float(0))
             ELSE Ok(IF neg THEN SNeg(mag) ELSE mag)

\* match (x, y) { ... }: a missing half is zero(), two missing halves are
\* an error; x is evaluated before y and a panic in either abandons the
\* call.
MatchPair(n, x, y) ==
    IF x.out = "panic" \/ y.out = "panic" THEN UnwrapPanic
    ELSE IF x.out = "Ok" /\ y.out = "Ok" THEN Ok(New(x.val[1], y.val[1]))
    ELSE IF x.out = "Ok" THEN Ok(New(x.val[1], Zero(n - 1)))
    ELSE IF y.out = "Ok" THEN Ok(New(Zero(n - 1), y.val[1]))
    ELSE Err

\* zstring and wstring: the text of one half of a quaternion rebuilt from
\* its two captures.
HalfString(textx, texty) ==
    IF textx # <<>> /\ texty # <<>> THEN textx \o texty \o <<"i">>
    ELSE IF textx # <<>> THEN textx
    ELSE IF texty # <<>> THEN texty \o <<"i">>
    ELSE <<>>

IsSpace(ch) == ch = " "

RECURSIVE SpaceRun(_, _)
SpaceRun(str, p) == IF IsSpace(At(str, p)) THEN 1 + SpaceRun(str, p + 1) ELSE 0

\* ^\(\s*(.+)\s*,\s*(.+)\s*\)$: the ways to match, each as the lengths
\* <<\s*, .+, \s*, \s*, .+, \s*>>.  Every repetition is greedy, so the
\* first way in priority order is the greatest in lexicographic order.
PairWays(str) ==
    IF At(str, 1) # "(" THEN {}
    ELSE UNION {UNION {UNION {UNION {
        {<<w0, l1, w1, w2, l2, Len(str) - 1 - (w0 + l1 + w1 + 1 + w2 + l2) - 1>> :
            l2 \in {m \in 1..Len(str) :
                LET q == 2 + w0 + l1 + w1 + 1 + w2 + m
                IN  /\ q <= Len(str)
                    /\ q + SpaceRun(str, q) = Len(str)
                    /\ At(str, Len(str)) = ")"}} :
          w2 \in 0..SpaceRun(str, 2 + w0 + l1 + w1 + 1)} :
          w1 \in {m \in 0..SpaceRun(str, 2 + w0 + l1) :
                    At(str, 2 + w0 + l1 + m) = ","}} :
          l1 \in 1..Len(str)} :
          w0 \in 0..SpaceRun(str, 2)}

LexGreater(u, v) ==
    \E i \in 1..Len(u) : u[i] > v[i] /\ \A j \in 1..(i - 1) : u[j] = v[j]

PairCaptures(str) ==
    IF PairWays(str) = {} THEN NoMatch
    ELSE LET way == CHOOSE u \in PairWays(str) :
                        \A v \in PairWays(str) \ {u} : LexGreater(u, v)
             p == 2 + way[1]
             q == p + way[2] + way[3] + 1 + way[4]
         IN  [matched |-> TRUE,
              caps |-> <<SubSeq(str, p, p + way[2] - 1),
                         SubSeq(str, q, q + way[5] - 1)>>]

RECURSIVE FromStr(_, _)
FromStr(n, str) ==
    IF n = 0 THEN ParseFloat(str)
    ELSE IF n - 1 = 0 THEN
        LET caps == Captures(str, ComplexSuffixes)
        IN  IF ~caps.matched THEN UnwrapPanic
            ELSE MatchPair(n, FromStr(n - 1, caps.caps[1]),
                              FromStr(n - 1, caps.caps[2]))
    ELSE IF n - 1 = 1 THEN
        LET caps == Captures(str, QuaternionSuffixes)
        IN  IF ~caps.matched THEN UnwrapPanic
            ELSE MatchPair(n,
                    FromStr(n - 1, HalfString(caps.caps[1], caps.caps[2])),
                    FromStr(n - 1, HalfString(caps.caps[3], caps.caps[4])))
    ELSE
        LET caps == PairCaptures(str)
        IN  IF ~caps.matched THEN UnwrapPanic
            ELSE MatchPair(n, FromStr(n - 1, caps.caps[1]),
                              FromStr(n - 1, caps.caps[2]))

(***************************************************************************)
(* Functions::exp and Functions::ln.  The scalar functions sqrt, exp, ln,  *)
(* cos, sin and acos are exact where their value is rational (sqrt of a    *)
(* square, exp(0), ln(1), cos(0), sin(0), acos(1)); elsewhere the value is *)
(* irrational and stands as one of a few rationals of the right sign,      *)
(* picked by the number o, so that a result holds for whatever the value   *)
(* is.  A non-finite argument gives a non-finite value.                    *)
(***************************************************************************)
Irrationals == <<<<3, 5>>, <<4, 5>>, <<7, 3>>>>

Oracles == DOMAIN Irrationals

IsSquare(m) == \E k \in 0..m : k * k = m

ISqrt(m) == CHOOSE k \in 0..m : k * k = m

FSqrt(x, o) ==
    IF ~IsFinite(x) \/ x[1] < 0 THEN NonFinite
    ELSE IF IsSquare(x[1]) /\ IsSquare(x[2]) THEN <<ISqrt(x[1]), ISqrt(x[2])>>
    ELSE Irrationals[o]

FExp(x, o) ==
    IF ~IsFinite(x) THEN NonFinite
    ELSE IF x = Float(0) THEN Float(1)
    ELSE Irrationals[o]

FLn(x, o) ==
    IF ~IsFinite(x) \/ x[1] <= 0 THEN NonFinite
    ELSE IF x = Float(1) THEN Float(0)
    ELSE IF x[1] > x[2] THEN Irrationals[o]
    ELSE SNeg(Irrationals[o])

FCos(x, o) ==
    IF ~IsFinite(x) THEN NonFinite
    ELSE IF x = Float(0) THEN Float(1)
    ELSE Irrationals[o]

FSin(x, o) ==
    IF ~IsFinite(x) THEN NonFinite
    ELSE IF x = Float(0) THEN Float(0)
    ELSE Irrationals[o]

FAcos(x, o) ==
    IF ~IsFinite(x) \/ Abs(x[1]) > x[2] THEN NonFinite
    ELSE IF x = Float(1) THEN Float(0)
    ELSE Irrationals[o]

\* Mutation of Exp: the unit direction is always imag / theta.
ExpAlwaysDivide(n, x, o) ==
    LET real == Real(n, x)
        imag == SubReal(n, x, real)
        theta == FSqrt(AbsSq(n, imag), o)
        unit_imag == DivReal(n, imag, theta)
    IN  RealMul(n, FExp(real, o),
                RealAdd(n, FCos(theta, o), MulReal(n, unit_imag, FSin(theta, o))))

Exp(n, x, o) ==
    LET real == Real(n, x)
        imag == SubReal(n, x, real)
        theta == FSqrt(AbsSq(n, imag), o)
        unit_imag == IF theta = Float(0) THEN Zero(n)
                     ELSE DivReal(n, imag, theta)
    IN  RealMul(n, FExp(real, o),
                RealAdd(n, FCos(theta, o), MulReal(n, unit_imag, FSin(theta, o))))

Ln(n, x, o) ==
    LET rr == FSqrt(AbsSq(n, x), o)
        normed == DivReal(n, x, rr)
        real == Real(n, normed)
        imag == SubReal(n, normed, real)
        imag_mag == FSqrt(AbsSq(n, imag), o)
        theta == FAcos(real, o)
        imag_exp == IF imag_mag = Float(0) THEN Zero(n)
                    ELSE DivReal(n, RealMul(n, theta, imag), imag_mag)
    IN  RealAdd(n, FLn(rr, o), imag_exp)

(***************************************************************************)
(* Functions::powu_tail, powu and powi.  num is a u32 for powu_tail and    *)
(* powu and an i32 for powi.                                               *)
(***************************************************************************)
\* Mutation of PowuTail: the odd branch passes acc on unchanged.
RECURSIVE PowuTailKeepAcc(_, _, _, _)
PowuTailKeepAcc(n, x, k, acc) ==
    IF k = 0 THEN acc
    ELSE CHOOSE out \in
            {PowuTailKeepAcc(n, sq, IF k % 2 = 0 THEN k \div 2
                                   ELSE (k - 1) \div 2, acc) :
                sq \in {Mul(n, x, x)}} :
            TRUE

\* sq and the next accumulator are values, computed before the call is made.
RECURSIVE PowuTail(_, _, _, _)
PowuTail(n, x, k, acc) ==
    IF k = 0 THEN acc
    ELSE IF k % 2 = 0
    THEN CHOOSE out \in {PowuTail(n, sq, k \div 2, acc) :
                            sq \in {Mul(n, x, x)}} : TRUE
    ELSE CHOOSE out \in {PowuTail(n, sq, (k - 1) \div 2, nacc) :
                            sq \in {Mul(n, x, x)},
                            nacc \in {Mul(n, x, acc)}} : TRUE

Powu(n, x, k) == PowuTail(n, x, k, One(n))

\* Mutation of Powi: the zeroth power is one().
PowiZeroIsOne(n, x, k) ==
    IF k = 0 THEN One(n)
    ELSE IF k < 0 THEN RealDiv(n, Float(1), Powu(n, x, -k))
    ELSE Powu(n, x, k)

Powi(n, x, k) ==
    IF k = 0 THEN Zero(n)
    ELSE IF k < 0 THEN RealDiv(n, Float(1), Powu(n, x, -k))
    ELSE Powu(n, x, k)

(***************************************************************************)
(* powi over the whole of i32.  An i32 is kept as its two 16-bit halves    *)
(* <<hi, lo>> with hi signed and lo unsigned (value hi * 2^16 + lo), a u32 *)
(* as two unsigned halves.  -num overflows for i32::MIN only; what the     *)
(* overflow does is the build's choice: with overflow checks (the default  *)
(* of debug and test builds) it panics, without (the default of release    *)
(* builds) it wraps.                                                       *)
(***************************************************************************)
HalfRange == 65536

I32(k) == <<k \div HalfRange, k % HalfRange>>

I32Min == <<-(HalfRange \div 2), 0>>

I32Max == <<(HalfRange \div 2) - 1, HalfRange - 1>>

\* -num before wrapping: the high half may be 2^15, which no i32 has.
NegHalves(e) ==
    <<-e[1] - (IF e[2] # 0 THEN 1 ELSE 0), (HalfRange - e[2]) % HalfRange>>

NegOverflows(e) == NegHalves(e)[1] = HalfRange \div 2

WrappingNeg(e) ==
    IF NegOverflows(e) THEN <<NegHalves(e)[1] - HalfRange, NegHalves(e)[2]>>
    ELSE NegHalves(e)

AsU32(e) == <<e[1] % HalfRange, e[2]>>

HalveU32(u) ==
    <<u[1] \div 2, (u[2] \div 2) + (u[1] % 2) * (HalfRange \div 2)>>

RECURSIVE PowuTailU32(_, _, _, _)
PowuTailU32(n, x, u, acc) ==
    IF u = <<0, 0>> THEN acc
    ELSE IF u[2] % 2 = 0
    THEN CHOOSE out \in {PowuTailU32(n, sq, HalveU32(u), acc) :
                            sq \in {Mul(n, x, x)}} : TRUE
    ELSE CHOOSE out \in {PowuTailU32(n, sq, HalveU32(u), nacc) :
                            sq \in {Mul(n, x, x)},
                            nacc \in {Mul(n, x, acc)}} : TRUE

PowuU32(n, x, u) == PowuTailU32(n, x, u, One(n))

PowiI32(n, x, e, overflow_checks) ==
    IF e = <<0, 0>> THEN Returned(Zero(n))
    ELSE IF e[1] < 0 THEN
        IF NegOverflows(e) /\ overflow_checks THEN Panicked
        ELSE Returned(RealDiv(n, Float(1),
                              PowuU32(n, x, AsU32(WrappingNeg(e)))))
    ELSE Returned(PowuU32(n, x, AsU32(e)))

(***************************************************************************)
(* Rounding::trunc and the remainder operators.                            *)
(***************************************************************************)
STrunc(x) ==
    IF ~IsFinite(x) THEN NonFinite
    ELSE IF x[1] >= 0 THEN Float(x[1] \div x[2])
    ELSE Float(-((-x[1]) \div x[2]))

RECURSIVE Trunc(_, _)
Trunc(n, x) == IF n = 0 THEN STrunc(x)
               ELSE New(Trunc(n - 1, x.re), Trunc(n - 1, x.im))

\* Mutation of Rem: other is the right factor of the product.
RemRightFactor(n, x, y) == Sub(n, x, Mul(n, Trunc(n, Div(n, x, y)), y))

Rem(n, x, y) == Sub(n, x, Mul(n, y, Trunc(n, Div(n, x, y))))

RealRem(n, t, x) == RealSub(n, t, Mul(n, x, Trunc(n, RealDiv(n, t, x))))

RemReal(n, x, t) == Sub(n, x, RealMul(n, t, Trunc(n, DivReal(n, x, t))))

(***************************************************************************)
(* Operators mixing depth n with depth n + 1; n is the shallower depth.    *)
(***************************************************************************)
\* Mutation of AddDeeper: the shallower operand is not added.
AddDeeperDropSelf(n, x, y) == New(y.re, y.im)

AddDeeper(n, x, y) == New(Add(n, x, y.re), y.im)

DeeperAdd(n, y, x) == New(Add(n, y.re, x), y.im)

SubDeeper(n, x, y) == New(Sub(n, x, y.re), y.im)

DeeperSub(n, y, x) == New(Sub(n, y.re, x), y.im)

(***************************************************************************)
(* forward_ref_bin_op: the three impls that take one or both operands by   *)
(* reference dereference them and call the by-value impl.  A reference is  *)
(* a one-element box around the value it points to.                        *)
(***************************************************************************)
Forms == {"val_val", "val_ref", "ref_val", "ref_ref"}

Ref(x) == <<x>>

Deref(p) == p[1]

Lhs(form, x) == IF form \in {"ref_val", "ref_ref"} THEN Ref(x) ELSE x

Rhs(form, y) == IF form \in {"val_ref", "ref_ref"} THEN Ref(y) ELSE y

ForwardSelf(form, x) == IF form \in {"ref_val", "ref_ref"} THEN Deref(x) ELSE x

ForwardOther(form, y) == IF form \in {"val_ref", "ref_ref"} THEN Deref(y) ELSE y

(***************************************************************************)
(* Sum and Product: Iterator::fold from zero() with Add::add and from      *)
(* one() with Mul::mul; the by-reference impls copy every item first.      *)
(***************************************************************************)
RECURSIVE FoldAdd(_, _, _)
FoldAdd(n, acc, v) ==
    IF v = <<>> THEN acc ELSE FoldAdd(n, Add(n, acc, Head(v)), Tail(v))

\* Mutation of FoldMul: the item is the left factor.
RECURSIVE FoldMulItemFirst(_, _, _)
FoldMulItemFirst(n, acc, v) ==
    IF v = <<>> THEN acc
    ELSE FoldMulItemFirst(n, Mul(n, Head(v), acc), Tail(v))

RECURSIVE FoldMul(_, _, _)
FoldMul(n, acc, v) ==
    IF v = <<>> THEN acc ELSE FoldMul(n, Mul(n, acc, Head(v)), Tail(v))

Sum(n, v) == FoldAdd(n, Zero(n), v)

SumRef(n, v) == Sum(n, [i \in DOMAIN v |-> Deref(v[i])])

Product(n, v) == FoldMul(n, One(n), v)

ProductRef(n, v) == Product(n, [i \in DOMAIN v |-> Deref(v[i])])

(***************************************************************************)
(* Input sets.  Depth 1 is enumerated over the leaf range; deeper values   *)
(* are the operands of the crate's arithmetic tests, the basis units, zero *)
(* and a family of dense samples, closed under conjugation.                *)
(***************************************************************************)
Leaves == (-MaxLeaf)..MaxLeaf

Scalars == {Float(x) : x \in Leaves}

FromInts(v) == ComplexMacro([i \in 1..Len(v) |-> Float(v[i])])

RECURSIVE Pow2(_)
Pow2(n) == IF n = 0 THEN 1 ELSE 2 * Pow2(n - 1)

Unit(n, p) == FromInts([i \in 1..Pow2(n) |-> IF i = p THEN 1 ELSE 0])

Sample(n, k) ==
    FromInts([i \in 1..Pow2(n) |->
                ((((k + 3) * (7 * i + k) * (i + 1 + k)) % 31)
                    % (2 * MaxLeaf + 1)) - MaxLeaf])

TestVectors(n) ==
    IF n = 2
    THEN {FromInts(v) : v \in {<<1, 2, 3, 4>>, <<2, 3, 4, 5>>, <<1, 0, 2, 3>>,
                               <<1, -1, 1, 1>>, <<1, 1, 1, -1>>, <<1, 1, 1, 1>>}}
    ELSE {FromInts(v) : v \in {<<1, 2, 3, 4, 1, 2, 3, 4>>,
                               <<1, 0, 2, 3, 2, 0, 1, 3>>,
                               <<1, -1, 1, 1, 0, 0, 0, 0>>,
                               <<1, 1, 1, -1, 0, 0, 0, 0>>,
                               <<1, -1, 1, 1, 0, 1, 0, 0>>,
                               <<1, 1, 1, -1, 0, 0, 0, 1>>,
                               <<1, 1, -1, 1, 0, 0, 1, 0>>,
                               <<1, 1, 1, 1, 1, 1, 1, 1>>}}

Vals(n) ==
    IF n = 1 THEN {New(x, y) : x \in Scalars, y \in Scalars}
    ELSE LET base == TestVectors(n) \cup {Zero(n)}
                       \cup {Unit(n, p) : p \in 1..Pow2(n)}
                       \cup {Sample(n, k) : k \in 0..MaxSample}
         IN base \cup {Conj(n, x) : x \in base}

TripLeaves == {Float(x) : x \in (-MaxTripLeaf)..MaxTripLeaf}

Trip(n) ==
    CASE n = 1 -> {New(x, y) : x \in TripLeaves, y \in TripLeaves}
      [] n = 2 -> {MulReal(2, Unit(2, p), x) : p \in 1..4, x \in TripLeaves}
                    \cup {FromInts(<<1, -1, 1, 1>>), FromInts(<<1, 1, 1, -1>>)}
      [] n = 3 -> {Zero(3)} \cup {Unit(3, p) : p \in 1..8}
                    \cup {FromInts(<<1, -1, 1, 1, 0, 1, 0, 0>>),
                          FromInts(<<1, 1, 1, -1, 0, 0, 0, 1>>),
                          FromInts(<<1, 1, -1, 1, 0, 0, 1, 0>>)}

(***************************************************************************)
(* Same-depth operations on two operands a and b.                          *)
(***************************************************************************)
Init ==
    /\ d \in Depths
    /\ a \in Vals(d)
    /\ b \in Vals(d)
    /\ c = Zero(d)
    /\ s = Float(0)
    /\ num = 0
    /\ items = <<>>
    /\ fwd = "val_val"
    /\ op = "init"
    /\ r = Zero(d)

DoMul ==
    /\ op = "init"
    /\ \E form \in Forms :
        /\ r' = Mul(d, ForwardSelf(form, Lhs(form, a)),
                      ForwardOther(form, Rhs(form, b)))
        /\ fwd' = form
    /\ op' = "mul"
    /\ UNCHANGED <<d, a, b, c, s, num, items>>

DoDiv ==
    /\ op = "init"
    /\ \E form \in Forms :
        /\ r' = Div(d, ForwardSelf(form, Lhs(form, a)),
                      ForwardOther(form, Rhs(form, b)))
        /\ fwd' = form
    /\ op' = "div"
    /\ UNCHANGED <<d, a, b, c, s, num, items>>

DoConj ==
    /\ op = "init"
    /\ r' = Conj(d, a)
    /\ op' = "conj"
    /\ UNCHANGED <<d, a, b, c, s, num, items, fwd>>

DoCommutator ==
    /\ op = "init"
    /\ r' = Sub(d, Mul(d, a, b), Mul(d, b, a))
    /\ op' = "commutator"
    /\ UNCHANGED <<d, a, b, c, s, num, items, fwd>>

Next == DoMul \/ DoDiv \/ DoConj \/ DoCommutator

Spec == Init /\ [][Next]_vars

(***************************************************************************)
(* Products of three operands a, b and c (associator and commutator of the *)
(* arithmetic tests and of main).                                          *)
(***************************************************************************)
InitTriple ==
    /\ d \in Depths
    /\ a \in Trip(d)
    /\ b \in Trip(d)
    /\ c \in Trip(d)
    /\ s = Float(0)
    /\ num = 0
    /\ items = <<>>
    /\ fwd = "val_val"
    /\ op = "init"
    /\ r = Zero(d)

DoAssociator ==
    /\ op = "init"
    /\ r' = Sub(d, Mul(d, Mul(d, a, b), c), Mul(d, a, Mul(d, b, c)))
    /\ op' = "associator"
    /\ UNCHANGED <<d, a, b, c, s, num, items, fwd>>

NextTriple == DoAssociator \/ DoCommutator

SpecTriple == InitTriple /\ [][NextTriple]_vars

(***************************************************************************)
(* Operations on a value a and a bare scalar s.                            *)
(***************************************************************************)
InitScalar ==
    /\ d \in Depths
    /\ a \in Vals(d)
    /\ b = Zero(d)
    /\ c = Zero(d)
    /\ s \in Scalars
    /\ num = 0
    /\ items = <<>>
    /\ fwd = "val_val"
    /\ op = "init"
    /\ r = Zero(d)

DoAddReal ==
    /\ op = "init"
    /\ \E form \in Forms :
        /\ r' = AddReal(d, ForwardSelf(form, Lhs(form, a)),
                           ForwardOther(form, Rhs(form, s)))
        /\ fwd' = form
    /\ op' = "add_real"
    /\ UNCHANGED <<d, a, b, c, s, num, items>>

DoRealAdd ==
    /\ op = "init"
    /\ \E form \in Forms :
        /\ r' = RealAdd(d, ForwardSelf(form, Lhs(form, s)),
                           ForwardOther(form, Rhs(form, a)))
        /\ fwd' = form
    /\ op' = "real_add"
    /\ UNCHANGED <<d, a, b, c, s, num, items>>

DoSubReal ==
    /\ op = "init"
    /\ \E form \in Forms :
        /\ r' = SubReal(d, ForwardSelf(form, Lhs(form, a)),
                           ForwardOther(form, Rhs(form, s)))
        /\ fwd' = form
    /\ op' = "sub_real"
    /\ UNCHANGED <<d, a, b, c, s, num, items>>

DoRealSub ==
    /\ op = "init"
    /\ \E form \in Forms :
        /\ r' = RealSub(d, ForwardSelf(form, Lhs(form, s)),
                           ForwardOther(form, Rhs(form, a)))
        /\ fwd' = form
    /\ op' = "real_sub"
    /\ UNCHANGED <<d, a, b, c, s, num, items>>

DoMulReal ==
    /\ op = "init"
    /\ \E form \in Forms :
        /\ r' = MulReal(d, ForwardSelf(form, Lhs(form, a)),
                           ForwardOther(form, Rhs(form, s)))
        /\ fwd' = form
    /\ op' = "mul_real"
    /\ UNCHANGED <<d, a, b, c, s, num, items>>

DoRealMul ==
    /\ op = "init"
    /\ \E form \in Forms :
        /\ r' = RealMul(d, ForwardSelf(form, Lhs(form, s)),
                           ForwardOther(form, Rhs(form, a)))
        /\ fwd' = form
    /\ op' = "real_mul"
    /\ UNCHANGED <<d, a, b, c, s, num, items>>

DoDivReal ==
    /\ op = "init"
    /\ \E form \in Forms :
        /\ r' = DivReal(d, ForwardSelf(form, Lhs(form, a)),
                           ForwardOther(form, Rhs(form, s)))
        /\ fwd' = form
    /\ op' = "div_real"
    /\ UNCHANGED <<d, a, b, c, s, num, items>>

DoRealDiv ==
    /\ op = "init"
    /\ \E form \in Forms :
        /\ r' = RealDiv(d, ForwardSelf(form, Lhs(form, s)),
                           ForwardOther(form, Rhs(form, a)))
        /\ fwd' = form
    /\ op' = "real_div"
    /\ UNCHANGED <<d, a, b, c, s, num, items>>

NextScalar ==
    \/ DoAddReal \/ DoRealAdd \/ DoSubReal \/ DoRealSub
    \/ DoMulReal \/ DoRealMul \/ DoDivReal \/ DoRealDiv

SpecScalar == InitScalar /\ [][NextScalar]_vars

(***************************************************************************)
(* Addition and subtraction of a value a of depth d and a value b of depth  *)
(* d + 1.                                                                  *)
(***************************************************************************)
CrossDepths == 1..2

InitCross ==
    /\ d \in CrossDepths
    /\ a \in Vals(d)
    /\ b \in Vals(d + 1)
    /\ c = Zero(d)
    /\ s = Float(0)
    /\ num = 0
    /\ items = <<>>
    /\ fwd = "val_val"
    /\ op = "init"
    /\ r = Zero(d + 1)

DoAddDeeper ==
    /\ op = "init"
    /\ \E form \in Forms :
        /\ r' = AddDeeper(d, ForwardSelf(form, Lhs(form, a)),
                             ForwardOther(form, Rhs(form, b)))
        /\ fwd' = form
    /\ op' = "add_deeper"
    /\ UNCHANGED <<d, a, b, c, s, num, items>>

DoDeeperAdd ==
    /\ op = "init"
    /\ \E form \in Forms :
        /\ r' = DeeperAdd(d, ForwardSelf(form, Lhs(form, b)),
                             ForwardOther(form, Rhs(form, a)))
        /\ fwd' = form
    /\ op' = "deeper_add"
    /\ UNCHANGED <<d, a, b, c, s, num, items>>

DoSubDeeper ==
    /\ op = "init"
    /\ \E form \in Forms :
        /\ r' = SubDeeper(d, ForwardSelf(form, Lhs(form, a)),
                             ForwardOther(form, Rhs(form, b)))
        /\ fwd' = form
    /\ op' = "sub_deeper"
    /\ UNCHANGED <<d, a, b, c, s, num, items>>

DoDeeperSub ==
    /\ op = "init"
    /\ \E form \in Forms :
        /\ r' = DeeperSub(d, ForwardSelf(form, Lhs(form, b)),
                             ForwardOther(form, Rhs(form, a)))
        /\ fwd' = form
    /\ op' = "deeper_sub"
    /\ UNCHANGED <<d, a, b, c, s, num, items>>

NextCross == DoAddDeeper \/ DoDeeperAdd \/ DoSubDeeper \/ DoDeeperSub

SpecCross == InitCross /\ [][NextCross]_vars

(***************************************************************************)
(* Remainders of a value a by a value b, of a scalar s by b and of a by s. *)
(***************************************************************************)
InitRem ==
    /\ d \in Depths
    /\ a \in Vals(d)
    /\ b \in Trip(d)
    /\ c = Zero(d)
    /\ s \in Scalars
    /\ num = 0
    /\ items = <<>>
    /\ fwd = "val_val"
    /\ op = "init"
    /\ r = Zero(d)

DoRem ==
    /\ op = "init"
    /\ \E form \in Forms :
        /\ r' = Rem(d, ForwardSelf(form, Lhs(form, a)),
                       ForwardOther(form, Rhs(form, b)))
        /\ fwd' = form
    /\ op' = "rem"
    /\ UNCHANGED <<d, a, b, c, s, num, items>>

DoRealRem ==
    /\ op = "init"
    /\ r' = RealRem(d, s, b)
    /\ op' = "real_rem"
    /\ UNCHANGED <<d, a, b, c, s, num, items, fwd>>

DoRemReal ==
    /\ op = "init"
    /\ r' = RemReal(d, a, s)
    /\ op' = "rem_real"
    /\ UNCHANGED <<d, a, b, c, s, num, items, fwd>>

NextRem == DoRem \/ DoRealRem \/ DoRemReal

SpecRem == InitRem /\ [][NextRem]_vars

(***************************************************************************)
(* Powers of a value a with exponent num and accumulator c.                *)
(***************************************************************************)
MaxPow == 5

InitPow ==
    /\ d \in Depths
    /\ a \in Trip(d)
    /\ b = Zero(d)
    /\ c \in Trip(d)
    /\ s = Float(0)
    /\ num \in -MaxPow..MaxPow
    /\ items = <<>>
    /\ fwd = "val_val"
    /\ op = "init"
    /\ r = Zero(d)

DoPowuTail ==
    /\ op = "init"
    /\ num >= 0
    /\ r' = PowuTail(d, a, num, c)
    /\ op' = "powu_tail"
    /\ UNCHANGED <<d, a, b, c, s, num, items, fwd>>

DoPowu ==
    /\ op = "init"
    /\ num >= 0
    /\ r' = Powu(d, a, num)
    /\ op' = "powu"
    /\ UNCHANGED <<d, a, b, c, s, num, items, fwd>>

DoPowi ==
    /\ op = "init"
    /\ r' = Powi(d, a, num)
    /\ op' = "powi"
    /\ UNCHANGED <<d, a, b, c, s, num, items, fwd>>

NextPow == DoPowuTail \/ DoPowu \/ DoPowi

SpecPow == InitPow /\ [][NextPow]_vars

(***************************************************************************)
(* Sums and products of a sequence of values.                              *)
(***************************************************************************)
MaxLen == 3

Elems(n) == {One(n), Unit(n, 2), Unit(n, Pow2(n)), Sample(n, 0), Sample(n, 1)}

SeqsUpTo(S, k) == UNION {[1..m -> S] : m \in 0..k}

InitFold ==
    /\ d \in Depths
    /\ a = Zero(d)
    /\ b = Zero(d)
    /\ c = Zero(d)
    /\ s = Float(0)
    /\ num = 0
    /\ items \in SeqsUpTo(Elems(d), MaxLen)
    /\ fwd = "val_val"
    /\ op = "init"
    /\ r = Zero(d)

DoSum ==
    /\ op = "init"
    /\ r' = Sum(d, items)
    /\ op' = "sum"
    /\ UNCHANGED <<d, a, b, c, s, num, items, fwd>>

DoSumRef ==
    /\ op = "init"
    /\ r' = SumRef(d, [i \in DOMAIN items |-> Ref(items[i])])
    /\ op' = "sum_ref"
    /\ UNCHANGED <<d, a, b, c, s, num, items, fwd>>

DoProduct ==
    /\ op = "init"
    /\ r' = Product(d, items)
    /\ op' = "product"
    /\ UNCHANGED <<d, a, b, c, s, num, items, fwd>>

DoProductRef ==
    /\ op = "init"
    /\ r' = ProductRef(d, [i \in DOMAIN items |-> Ref(items[i])])
    /\ op' = "product_ref"
    /\ UNCHANGED <<d, a, b, c, s, num, items, fwd>>

NextFold == DoSum \/ DoSumRef \/ DoProduct \/ DoProductRef

SpecFold == InitFold /\ [][NextFold]_vars

(***************************************************************************)
(* Constructors: from_slice and from_vec of a sequence of scalars, and     *)
(* the constants i(), j(), k(), at depths 0 (a scalar) to 5.               *)
(***************************************************************************)
MaxSeqLen == 17

ConstructDepths == 0..5

Iota(m) == [i \in 1..m |-> Float(i)]

SampleSeq(m, k) ==
    [i \in 1..m |-> Float((((k + 3) * (7 * i + k) * (i + 1 + k)) % 31) - 15)]

SeqInputs ==
    {Iota(m) : m \in 0..MaxSeqLen}
        \cup {SampleSeq(m, k) : m \in 0..MaxSeqLen, k \in 0..1}

InitConstruct ==
    /\ d \in ConstructDepths
    /\ a = Zero(d)
    /\ b = Zero(d)
    /\ c = Zero(d)
    /\ s = Float(0)
    /\ num = 0
    /\ items \in SeqInputs
    /\ fwd = "val_val"
    /\ op = "init"
    /\ r = Zero(d)

DoFromSlice ==
    /\ op = "init"
    /\ \E out \in {FromSlice(d, items)} :
        IF out.panic
        THEN op' = "from_slice_index_out_of_bounds" /\ r' = r
        ELSE op' = "from_slice" /\ r' = out.val[1]
    /\ UNCHANGED <<d, a, b, c, s, num, items, fwd>>

DoFromVec ==
    /\ op = "init"
    /\ \E out \in {FromVec(d, items)} :
        IF out.panic
        THEN op' = "from_vec_index_out_of_bounds" /\ r' = r
        ELSE op' = "from_vec" /\ r' = out.val[1]
    /\ UNCHANGED <<d, a, b, c, s, num, items, fwd>>

DoI ==
    /\ op = "init"
    /\ r' = I(d)
    /\ op' = "i"
    /\ UNCHANGED <<d, a, b, c, s, num, items, fwd>>

DoJ ==
    /\ op = "init"
    /\ r' = J(d)
    /\ op' = "j"
    /\ UNCHANGED <<d, a, b, c, s, num, items, fwd>>

DoK ==
    /\ op = "init"
    /\ r' = K(d)
    /\ op' = "k"
    /\ UNCHANGED <<d, a, b, c, s, num, items, fwd>>

NextConstruct == DoFromSlice \/ DoFromVec \/ DoI \/ DoJ \/ DoK

SpecConstruct == InitConstruct /\ [][NextConstruct]_vars

(***************************************************************************)
(* Display of a value a; r receives the text.                              *)
(***************************************************************************)
DisplayLeaves ==
    Scalars \cup {Float(12), Float(-10), <<3, 2>>, <<-1, 2>>,
                 NegZero, PosInf, NegInf, NaN}

FewLeaves == {Float(10), Float(-2), <<-1, 2>>, NegZero, NaN}

TwoLeaves == {Float(-2), <<1, 2>>}

DisplayVals(n) ==
    IF n = 1 THEN {New(x, y) : x, y \in DisplayLeaves}
    ELSE IF n = 2 THEN {ComplexMacro(v) : v \in [1..4 -> FewLeaves]}
    ELSE {ComplexMacro(v) : v \in [1..8 -> TwoLeaves]}
            \cup {New(x, y) : x, y \in {ComplexMacro(v) :
                                           v \in [1..4 -> {NegZero, NaN}]}}

InitDisplay ==
    /\ d \in Depths
    /\ a \in DisplayVals(d)
    /\ b = Zero(d)
    /\ c = Zero(d)
    /\ s = Float(0)
    /\ num = 0
    /\ items = <<>>
    /\ fwd = "val_val"
    /\ op = "init"
    /\ r = Zero(d)

DoToString ==
    /\ op = "init"
    /\ r' = Fmt(d, a)
    /\ op' = "to_string"
    /\ UNCHANGED <<d, a, b, c, s, num, items, fwd>>

NextDisplay == DoToString

SpecDisplay == InitDisplay /\ [][NextDisplay]_vars

(***************************************************************************)
(* to_string followed by parse, at depths 1 and 2; items receives the      *)
(* text and r the parsed value.                                            *)
(***************************************************************************)
RoundTripDepths == 1..2

InitRoundTrip ==
    /\ d \in RoundTripDepths
    /\ a \in DisplayVals(d)
    /\ b = Zero(d)
    /\ c = Zero(d)
    /\ s = Float(0)
    /\ num = 0
    /\ items = <<>>
    /\ fwd = "val_val"
    /\ op = "init"
    /\ r = Zero(d)

DoToStringParse ==
    /\ op = "init"
    /\ items' = Fmt(d, a)
    /\ \E out \in {FromStr(d, Fmt(d, a))} :
        /\ op' = IF out.out = "Ok" THEN "round_trip"
                 ELSE IF out.out = "Err" THEN "round_trip_err"
                 ELSE "round_trip_panic"
        /\ r' = IF out.out = "Ok" THEN out.val[1] ELSE r
    /\ UNCHANGED <<d, a, b, c, s, num, fwd>>

NextRoundTrip == DoToStringParse

SpecRoundTrip == InitRoundTrip /\ [][NextRoundTrip]_vars

(***************************************************************************)
(* Parsing a text (items) at depths 1 to 4.  The texts are selections of   *)
(* parts, the texts of the tests, malformed texts and pairs.               *)
(***************************************************************************)
ParseDepths == 1..4

Numerals == {<<"4">>, <<"1", "2">>, <<"-", "3">>, <<"+", "1">>}

Letters == <<<<>>, <<"i">>, <<"j">>, <<"k">>>>

\* One numeral or nothing ("") for each part of a value of depth n.
PartSelections(n) == [1..Pow2(n) -> Numerals \cup {<<>>}] \ {[i \in 1..Pow2(n) |-> <<>>]}

\* The parts of sel in order, each numeral followed by its letter; a
\* numeral without a sign that follows another part gets a plus sign.
RECURSIVE PartsText(_, _)
PartsText(sel, m) ==
    IF m = 0 THEN <<>>
    ELSE LET before == PartsText(sel, m - 1)
         IN  IF sel[m] = <<>> THEN before
             ELSE before
                    \o (IF before # <<>> /\ IsDigit(Head(sel[m]))
                        THEN <<"+">> ELSE <<>>)
                    \o sel[m] \o Letters[m]

PartsTexts(n) == {PartsText(sel, Pow2(n)) : sel \in PartSelections(n)}

\* Texts that are not of the grammar of depth n: a letter that is no
\* suffix, parts out of order, spaces.
Malformed(n) ==
    IF n = 1 THEN {<<"4", "b", "+", "1", "i">>, <<"1", "i", "+", "4">>, <<"4", " ", "+", " ", "1", "i">>, <<"4", "+", "1", "j">>}
    ELSE IF n = 2 THEN {<<"4", "b", "+", "1", "i">>, <<"1", "+", "2", "j", "+", "3", "i">>, <<"1", " ", "+", " ", "2", "i">>, <<"4", "k", "+", "3", "j">>}
    ELSE {<<"4", "b", "+", "1", "i">>, <<"1", "+", "2", "i">>}

PairText(textx, texty) == <<"(">> \o textx \o <<",", " ">> \o texty \o <<")">>

\* Texts of values of depth n that parse at that depth.
RECURSIVE ValidTexts(_)
ValidTexts(n) ==
    IF n = 1 THEN {<<"4", "+", "1", "i">>, <<"4">>, <<"1", "i">>}
    ELSE IF n = 2 THEN {<<"1", "+", "2", "i", "+", "3", "j", "+", "4", "k">>, <<"5", "+", "6", "i", "+", "7", "j", "+", "8", "k">>, <<"4">>, <<"3", "j">>}
    ELSE {PairText(textx, texty) : textx, texty \in ValidTexts(n - 1)}

OtherTexts == {<<>>, <<"1", "2", "i">>, <<"1", ".", "5", "i">>, <<"1", "e", "2", "+", ".", "5", "e", "-", "1", "i">>}

ParseTexts(n) ==
    IF n <= 2 THEN PartsTexts(n) \cup Malformed(n) \cup ValidTexts(n) \cup OtherTexts
    ELSE ValidTexts(n) \cup Malformed(n) \cup ValidTexts(n - 1)

InitParse ==
    /\ d \in ParseDepths
    /\ a = Zero(d)
    /\ b = Zero(d)
    /\ c = Zero(d)
    /\ s = Float(0)
    /\ num = 0
    /\ items \in ParseTexts(d)
    /\ fwd = "val_val"
    /\ op = "init"
    /\ r = Zero(d)

DoFromStr ==
    /\ op = "init"
    /\ \E out \in {FromStr(d, items)} :
        /\ op' = IF out.out = "Ok" THEN "from_str"
                 ELSE IF out.out = "Err" THEN "from_str_err"
                 ELSE "from_str_panic"
        /\ r' = IF out.out = "Ok" THEN out.val[1] ELSE r
    /\ UNCHANGED <<d, a, b, c, s, num, items, fwd>>

NextParse == DoFromStr

SpecParse == InitParse /\ [][NextParse]_vars

(***************************************************************************)
(* exp and ln of a value a; num receives the number that picked the        *)
(* irrational values.                                                      *)
(***************************************************************************)
InitExpLn ==
    /\ d \in Depths
    /\ a \in Vals(d) \cup {MulReal(d, One(d), t) : t \in Scalars}
    /\ b = Zero(d)
    /\ c = Zero(d)
    /\ s = Float(0)
    /\ num = 0
    /\ items = <<>>
    /\ fwd = "val_val"
    /\ op = "init"
    /\ r = Zero(d)

DoExp ==
    /\ op = "init"
    /\ \E o \in Oracles :
        /\ r' = Exp(d, a, o)
        /\ num' = o
    /\ op' = "exp"
    /\ UNCHANGED <<d, a, b, c, s, items, fwd>>

DoLn ==
    /\ op = "init"
    /\ \E o \in Oracles :
        /\ r' = Ln(d, a, o)
        /\ num' = o
    /\ op' = "ln"
    /\ UNCHANGED <<d, a, b, c, s, items, fwd>>

NextExpLn == DoExp \/ DoLn

SpecExpLn == InitExpLn /\ [][NextExpLn]_vars

(***************************************************************************)
(* powu(z, n) call by call.  powu_tail calls itself in tail position, so   *)
(* a run is a sequence of calls, each with its own self (a), exponent      *)
(* (num) and accumulator (c); b keeps z and items lists the positive       *)
(* exponents the calls were made with.                                     *)
(***************************************************************************)
MaxExp == 40

\* Mutation of NextExponent: linear recursion.
NextExponentLinear(k) == k - 1

NextExponent(k) == IF k % 2 = 0 THEN k \div 2 ELSE (k - 1) \div 2

PowuBases(n) == {Zero(n), One(n), Neg(n, One(n)), Unit(n, 2), Unit(n, Pow2(n))}

InitPowuCalls ==
    /\ d \in Depths
    /\ a \in PowuBases(d)
    /\ b = a
    /\ c = One(d)
    /\ s = Float(0)
    /\ num \in 0..MaxExp
    /\ items = <<>>
    /\ fwd = "val_val"
    /\ op = "init"
    /\ r = Zero(d)

DoPowuTailCall ==
    /\ op \in {"init", "powu_tail"}
    /\ num # 0
    /\ a' = Mul(d, a, a)
    /\ c' = IF num % 2 = 0 THEN c ELSE Mul(d, a, c)
    /\ num' = NextExponent(num)
    /\ items' = Append(items, num)
    /\ op' = "powu_tail"
    /\ UNCHANGED <<d, b, s, fwd, r>>

DoPowuTailReturn ==
    /\ op \in {"init", "powu_tail"}
    /\ num = 0
    /\ r' = c
    /\ op' = "powu_return"
    /\ UNCHANGED <<d, a, b, c, s, num, items, fwd>>

NextPowuCalls == DoPowuTailCall \/ DoPowuTailReturn

SpecPowuCalls == InitPowuCalls /\ [][NextPowuCalls]_vars

(***************************************************************************)
(* Products of two values of depth d + 1 whose im half is zero(), built    *)
(* from a and b of depth d (the octonion commutator of the arithmetic      *)
(* tests).                                                                 *)
(***************************************************************************)
InitEmbedded ==
    /\ d \in CrossDepths
    /\ a \in Vals(d)
    /\ b \in Vals(d)
    /\ c = Zero(d)
    /\ s = Float(0)
    /\ num = 0
    /\ items = <<>>
    /\ fwd = "val_val"
    /\ op = "init"
    /\ r = Zero(d + 1)

DoMulEmbedded ==
    /\ op = "init"
    /\ r' = Mul(d + 1, New(a, Zero(d)), New(b, Zero(d)))
    /\ op' = "mul_embedded"
    /\ UNCHANGED <<d, a, b, c, s, num, items, fwd>>

DoCommutatorEmbedded ==
    /\ op = "init"
    /\ r' = Sub(d + 1, Mul(d + 1, New(a, Zero(d)), New(b, Zero(d))),
                       Mul(d + 1, New(b, Zero(d)), New(a, Zero(d))))
    /\ op' = "commutator_embedded"
    /\ UNCHANGED <<d, a, b, c, s, num, items, fwd>>

NextEmbedded == DoMulEmbedded \/ DoCommutatorEmbedded

SpecEmbedded == InitEmbedded /\ [][NextEmbedded]_vars

(***************************************************************************)
(* Products of the constants i(), j() and k(): a * b and (a * b) * c.      *)
(***************************************************************************)
UnitDepths == 2..3

ImaginaryUnits(n) == {I(n), J(n), K(n)}

InitUnits ==
    /\ d \in UnitDepths
    /\ a \in ImaginaryUnits(d)
    /\ b \in ImaginaryUnits(d)
    /\ c \in ImaginaryUnits(d)
    /\ s = Float(0)
    /\ num = 0
    /\ items = <<>>
    /\ fwd = "val_val"
    /\ op = "init"
    /\ r = Zero(d)

DoUnitProduct ==
    /\ op = "init"
    /\ r' = Mul(d, a, b)
    /\ op' = "unit_product"
    /\ UNCHANGED <<d, a, b, c, s, num, items, fwd>>

DoUnitTripleProduct ==
    /\ op = "init"
    /\ r' = Mul(d, Mul(d, a, b), c)
    /\ op' = "unit_triple_product"
    /\ UNCHANGED <<d, a, b, c, s, num, items, fwd>>

NextUnits == DoUnitProduct \/ DoUnitTripleProduct

SpecUnits == InitUnits /\ [][NextUnits]_vars

(***************************************************************************)
(* powi(a, num) for num over the whole of i32, num being kept as its two   *)
(* halves, in a build with and in a build without overflow checks.         *)
(***************************************************************************)
Exponents ==
    {I32Min, I32Max, WrappingNeg(I32Max), <<-1, 0>>}
        \cup {I32(k) : k \in -MaxPow..MaxPow}

InitPowiI32 ==
    /\ d \in Depths
    /\ a \in PowuBases(d)
    /\ b = Zero(d)
    /\ c = Zero(d)
    /\ s = Float(0)
    /\ num \in Exponents
    /\ items = <<>>
    /\ fwd = "val_val"
    /\ op = "init"
    /\ r = Zero(d)

DoPowiOverflowChecks ==
    /\ op = "init"
    /\ \E out \in {PowiI32(d, a, num, TRUE)} :
        IF out.panic
        THEN op' = "powi_negate_overflow_panic" /\ r' = r
        ELSE op' = "powi_i32" /\ r' = out.val[1]
    /\ UNCHANGED <<d, a, b, c, s, num, items, fwd>>

DoPowiWrapping ==
    /\ op = "init"
    /\ \E out \in {PowiI32(d, a, num, FALSE)} :
        IF out.panic
        THEN op' = "powi_negate_overflow_panic" /\ r' = r
        ELSE op' = "powi_i32" /\ r' = out.val[1]
    /\ UNCHANGED <<d, a, b, c, s, num, items, fwd>>

NextPowiI32 == DoPowiOverflowChecks \/ DoPowiWrapping

SpecPowiI32 == InitPowiI32 /\ [][NextPowiI32]_vars

(***************************************************************************)
(* The remainder of a product by its right factor: c = a * b, r = c % b,   *)
(* for integer-leaved a and b at depths 1 and 2.                           *)
(***************************************************************************)
MultipleDepths == 1..2

InitRemMultiple ==
    /\ d \in MultipleDepths
    /\ a \in Trip(d)
    /\ b \in Trip(d)
    /\ c = Zero(d)
    /\ s = Float(0)
    /\ num = 0
    /\ items = <<>>
    /\ fwd = "val_val"
    /\ op = "init"
    /\ r = Zero(d)

DoRemOfMultiple ==
    /\ op = "init"
    /\ c' = Mul(d, a, b)
    /\ r' = Rem(d, Mul(d, a, b), b)
    /\ op' = "rem_of_multiple"
    /\ UNCHANGED <<d, a, b, s, num, items, fwd>>

NextRemMultiple == DoRemOfMultiple

SpecRemMultiple == InitRemMultiple /\ [][NextRemMultiple]_vars

(***************************************************************************)
(* Vocabulary of the properties: the leaves of a value in flat order, a    *)
(* value with every leaf multiplied by a scalar, and the embedding of a    *)
(* scalar into the real leaf.                                              *)
(***************************************************************************)
RECURSIVE Flat(_, _)
Flat(n, x) == IF n = 0 THEN <<x>> ELSE Flat(n - 1, x.re) \o Flat(n - 1, x.im)

Scaled(n, x, t) == [i \in 1..Pow2(n) |-> SMul(Flat(n, x)[i], t)]

RealOnly(n, t) == [i \in 1..Pow2(n) |-> IF i = 1 THEN t ELSE Float(0)]

RECURSIVE Embed(_, _)
Embed(n, t) == IF n = 0 THEN t ELSE New(Embed(n - 1, t), Zero(n - 1))

RECURSIVE SumSquares(_)
SumSquares(v) == IF v = <<>> THEN Float(0)
                 ELSE SAdd(SMul(Head(v), Head(v)), SumSquares(Tail(v)))

NonZeroNorm(n, x) == IsFinite(AbsSq(n, x)) /\ AbsSq(n, x) # Float(0)

\* x multiplied k times from the left, starting from one().
RECURSIVE Times(_, _, _)
Times(n, x, k) ==
    IF k = 0 THEN One(n)
    ELSE CHOOSE out \in {Mul(n, x, p) : p \in {Times(n, x, k - 1)}} : TRUE

\* ((zero() + v[1]) + v[2]) + ... and ((one() * v[1]) * v[2]) * ..., built
\* from the last item backwards.
RECURSIVE LeftSum(_, _)
LeftSum(n, v) ==
    IF Len(v) = 0 THEN Zero(n)
    ELSE Add(n, LeftSum(n, SubSeq(v, 1, Len(v) - 1)), v[Len(v)])

RECURSIVE LeftProduct(_, _)
LeftProduct(n, v) ==
    IF Len(v) = 0 THEN One(n)
    ELSE Mul(n, LeftProduct(n, SubSeq(v, 1, Len(v) - 1)), v[Len(v)])

\* The value of depth n whose only nonzero leaf is a 1 at 0-indexed flat
\* position p.
HasSingleOneAt(n, x, p) ==
    \A i \in 1..Pow2(n) :
        Flat(n, x)[i] = IF i = p + 1 THEN Float(1) ELSE Float(0)

\* x >= 0 as floats compare: -0.0 >= 0 holds, NaN >= 0 does not.
GeZero(x) ==
    IF x = NaN \/ x = NegInf THEN FALSE
    ELSE IF x = NegZero \/ x = PosInf THEN TRUE
    ELSE x[1] >= 0

\* The text of x starts with a minus sign: x < 0 or x is -0.0.
SignNegative(x) == x = NegZero \/ x = NegInf \/ (x[2] > 0 /\ x[1] < 0)

\* |x| as a float.
FAbs(x) ==
    IF x = NaN THEN NaN
    ELSE IF x = NegZero THEN Float(0)
    ELSE IF x = NegInf \/ x = PosInf THEN PosInf
    ELSE <<Abs(x[1]), x[2]>>

\* " + <x><unit>" or " - <|x|><unit>", the minus form when neg holds.
Term(x, neg, unit) ==
    (IF neg THEN <<" ", "-", " ">> ELSE <<" ", "+", " ">>)
        \o ScalarToString(IF neg THEN FAbs(x) ELSE x) \o <<unit>>

\* The grammar with the minus form chosen by ~GeZero.
RECURSIVE GrammarGeZero(_, _)
GrammarGeZero(n, x) ==
    IF n = 1 THEN ScalarToString(x.re) \o Term(x.im, ~GeZero(x.im), "i")
    ELSE IF n = 2 THEN
        ScalarToString(x.re.re)
            \o Term(x.re.im, ~GeZero(x.re.im), "i")
            \o Term(x.im.re, ~GeZero(x.im.re), "j")
            \o Term(x.im.im, ~GeZero(x.im.im), "k")
    ELSE <<"(">> \o GrammarGeZero(n - 1, x.re) \o <<",", " ">>
            \o GrammarGeZero(n - 1, x.im) \o <<")">>

\* The grammar with the minus form chosen by SignNegative.
RECURSIVE GrammarSign(_, _)
GrammarSign(n, x) ==
    IF n = 1 THEN ScalarToString(x.re) \o Term(x.im, SignNegative(x.im), "i")
    ELSE IF n = 2 THEN
        ScalarToString(x.re.re)
            \o Term(x.re.im, SignNegative(x.re.im), "i")
            \o Term(x.im.re, SignNegative(x.im.re), "j")
            \o Term(x.im.im, SignNegative(x.im.im), "k")
    ELSE <<"(">> \o GrammarSign(n - 1, x.re) \o <<",", " ">>
            \o GrammarSign(n - 1, x.im) \o <<")">>

\* The number an optionally signed run of digits denotes; 0 for no numeral.
NumeralValue(str) ==
    IF str = <<>> THEN Float(0)
    ELSE IF Head(str) = "-" THEN Float(-DigitsValue(Tail(str), 0))
    ELSE IF Head(str) = "+" THEN Float(DigitsValue(Tail(str), 0))
    ELSE Float(DigitsValue(str, 0))

\* Every leaf of x but the first is 0.
NonRealLeavesZero(n, x) == \A i \in 2..Pow2(n) : Flat(n, x)[i] = Float(0)

\* floor(log2 m) for m >= 1.
RECURSIVE Log2Floor(_)
Log2Floor(m) == IF m <= 1 THEN 0 ELSE 1 + Log2Floor(m \div 2)

\* The multiplications of the calls made with the exponents v: one
\* squaring each, and self * acc for an odd exponent.
RECURSIVE Multiplications(_)
Multiplications(v) ==
    IF v = <<>> THEN 0
    ELSE (IF Head(v) % 2 = 0 THEN 1 ELSE 2) + Multiplications(Tail(v))

\* |e| of a negative i32 e as a u32: 2^32 + e taken away from 2^32.
AbsAsU32(e) == <<(HalfRange - 1 - (e[1] % HalfRange)) + (IF e[2] = 0 THEN 1 ELSE 0),
                 (HalfRange - e[2]) % HalfRange>>

SLeq(x, y) == x[1] * y[2] <= y[1] * x[2]

SAbs(x) == <<Abs(x[1]), x[2]>>

\* t is q truncated toward zero: an integer of the sign of q with
\* |t| <= |q| < |t| + 1.
IsTruncOf(t, q) ==
    /\ t[2] = 1
    /\ t[1] * q[1] >= 0
    /\ SLeq(SAbs(t), SAbs(q))
    /\ ~SLeq(SAdd(SAbs(t), Float(1)), SAbs(q))

\* r = x - y * t, where every leaf of t is that leaf of the quotient q
\* truncated toward zero.
IsRemainder(n, res, x, y, q) ==
    \E t \in {Trunc(n, q)} :
        /\ \A i \in 1..Pow2(n) : IsTruncOf(Flat(n, t)[i], Flat(n, q)[i])
        /\ Flat(n, res) = [i \in 1..Pow2(n) |->
              SSub(Flat(n, x)[i], Flat(n, Mul(n, y, t))[i])]

(***************************************************************************)
(* C1: a * b = (a0*b0 - conj(b1)*a1, b1*a0 + a1*conj(b0)) with the inner   *)
(* operations taken one depth lower; at depth 1 these are the scalar       *)
(* products a0*b0 - b1*a1 and b1*a0 + a1*b0, so (1,2)*(1,-2) = (5,0).      *)
(***************************************************************************)
Thm_C1_MulFormula ==
    op = "mul" =>
        /\ r = New(Sub(d - 1, Mul(d - 1, a.re, b.re),
                              Mul(d - 1, Conj(d - 1, b.im), a.im)),
                   Add(d - 1, Mul(d - 1, b.im, a.re),
                              Mul(d - 1, a.im, Conj(d - 1, b.re))))
        /\ d = 1 =>
             r = New(SSub(SMul(a.re, b.re), SMul(b.im, a.im)),
                     SAdd(SMul(b.im, a.re), SMul(a.im, b.re)))
        /\ (d = 1 /\ a = FromInts(<<1, 2>>) /\ b = FromInts(<<1, -2>>)) =>
             r = FromInts(<<5, 0>>)
        /\ (d = 2 /\ a = Unit(2, 2) /\ b = Unit(2, 3)) => r = Unit(2, 4)

Wit_C1_MulFormula ==
    /\ op = "mul"
    /\ d = 3
    /\ a = FromInts(<<1, 0, 2, 3, 2, 0, 1, 3>>)
    /\ b = Conj(3, a)
    /\ r = FromInts(<<28, 0, 0, 0, 0, 0, 0, 0>>)

(***************************************************************************)
(* C2: for abs_sq(b) # 0, a / b is a * conj(b) with every leaf multiplied  *)
(* by 1 / abs_sq(b).                                                       *)
(***************************************************************************)
Thm_C2_DivIsScaledConjProduct ==
    (op = "div" /\ NonZeroNorm(d, b)) =>
        Flat(d, r) = Scaled(d, Mul(d, a, Conj(d, b)),
                            SDiv(Float(1), AbsSq(d, b)))

Wit_C2_DivIsScaledConjProduct ==
    /\ op = "div"
    /\ d = 2
    /\ a = FromInts(<<1, 2, 3, 4>>)
    /\ b = FromInts(<<1, 1, 1, 1>>)
    /\ Flat(d, r) = <<<<5, 2>>, <<1, 2>>, <<0, 1>>, <<1, 1>>>>

(***************************************************************************)
(* C3: for abs_sq(z) # 0, z / z = one(), whichever operands are passed by  *)
(* reference.                                                              *)
(***************************************************************************)
Thm_C3_DivSelfIsOne ==
    (op = "div" /\ a = b /\ NonZeroNorm(d, a)) =>
        /\ r = One(d)
        /\ Flat(d, r) = RealOnly(d, Float(1))

Wit_C3_DivSelfIsOne ==
    /\ op = "div"
    /\ d = 3
    /\ fwd = "ref_ref"
    /\ a = FromInts(<<1, 2, 3, 4, 1, 2, 3, 4>>)
    /\ b = a
    /\ r = One(3)

(***************************************************************************)
(* C4: conj(re, im) = (conj(re), -im) and the conjugate of a scalar is the *)
(* scalar; conj(conj(z)) = z; abs_sq is the sum of the squares of the      *)
(* leaves and abs_sq(conj(z)) = abs_sq(z).                                 *)
(***************************************************************************)
Thm_C4_ConjInvolution ==
    op = "conj" =>
        /\ r = New(Conj(d - 1, a.re), Neg(d - 1, a.im))
        /\ Real(d, r) = Real(d, a)
        /\ Conj(d, r) = a
        /\ AbsSq(d, r) = AbsSq(d, a)
        /\ AbsSq(d, a) = SAdd(AbsSq(d - 1, a.re), AbsSq(d - 1, a.im))
        /\ AbsSq(d, a) = SumSquares(Flat(d, a))

Wit_C4_ConjInvolution ==
    /\ op = "conj"
    /\ d = 3
    /\ a = FromInts(<<1, 1, -1, 1, 0, 0, 1, 0>>)
    /\ r = FromInts(<<1, -1, 1, -1, 0, 0, -1, 0>>)

(***************************************************************************)
(* C5: z * conj(z) has real leaf abs_sq(z) and every other leaf zero.      *)
(***************************************************************************)
Thm_C5_NormIsReal ==
    (op = "mul" /\ b = Conj(d, a)) =>
        /\ Flat(d, r) = RealOnly(d, AbsSq(d, a))
        /\ (d = 2 /\ a = FromInts(<<1, 0, 2, 3>>)) =>
             r = FromInts(<<14, 0, 0, 0>>)

Wit_C5_NormIsReal ==
    /\ op = "mul"
    /\ d = 2
    /\ a = FromInts(<<1, 0, 2, 3>>)
    /\ b = FromInts(<<1, 0, -2, -3>>)
    /\ r = FromInts(<<14, 0, 0, 0>>)

(***************************************************************************)
(* C7: for z1 = (1,-1,1,1) and z2 = (1,1,1,-1), z1*z2 - z2*z1 is           *)
(* (0,-4,0,-4).                                                            *)
(***************************************************************************)
Thm_C7_QuaternionCommutator ==
    (op = "commutator" /\ d = 2 /\ a = FromInts(<<1, -1, 1, 1>>)
        /\ b = FromInts(<<1, 1, 1, -1>>)) =>
        r = FromInts(<<0, -4, 0, -4>>)

Wit_C7_QuaternionCommutator ==
    /\ op = "commutator"
    /\ d = 2
    /\ a = FromInts(<<1, -1, 1, 1>>)
    /\ b = FromInts(<<1, 1, 1, -1>>)
    /\ Flat(2, r) = <<Float(0), Float(-4), Float(0), Float(-4)>>

(***************************************************************************)
(* C6: at depth 1 the product is commutative and associative; at depth 2   *)
(* it is associative for all operands, and some depth-2 operands do not    *)
(* commute (i*j and j*i differ).                                           *)
(***************************************************************************)
Thm_C6_CommutativeAssociative ==
    /\ (op = "commutator" /\ d = 1) =>
          (r = Zero(1) /\ Mul(1, a, b) = Mul(1, b, a))
    /\ (op = "associator" /\ d \in {1, 2}) =>
          (r = Zero(d) /\ Mul(d, Mul(d, a, b), c) = Mul(d, a, Mul(d, b, c)))
    /\ \E x \in {Unit(2, 2)}, y \in {Unit(2, 3)} : Mul(2, x, y) # Mul(2, y, x)

Wit_C6_CommutativeAssociative ==
    /\ op = "associator"
    /\ d = 2
    /\ a = FromInts(<<1, -1, 1, 1>>)
    /\ b = FromInts(<<1, 1, 1, -1>>)
    /\ c = Unit(2, 3)
    /\ Mul(2, a, b) # Mul(2, b, a)
    /\ r = Zero(2)

(***************************************************************************)
(* C8: the associator of the octonions z1 = (1,-1,1,1,0,1,0,0),            *)
(* z2 = (1,1,1,-1,0,0,0,1), z3 = (1,1,-1,1,0,0,1,0) is not zero.           *)
(***************************************************************************)
Thm_C8_OctonionAssociator ==
    (op = "associator" /\ d = 3
        /\ a = FromInts(<<1, -1, 1, 1, 0, 1, 0, 0>>)
        /\ b = FromInts(<<1, 1, 1, -1, 0, 0, 0, 1>>)
        /\ c = FromInts(<<1, 1, -1, 1, 0, 0, 1, 0>>)) =>
        r # Zero(3)

Wit_C8_OctonionAssociator ==
    /\ op = "associator"
    /\ d = 3
    /\ a = FromInts(<<1, -1, 1, 1, 0, 1, 0, 0>>)
    /\ b = FromInts(<<1, 1, 1, -1, 0, 0, 0, 1>>)
    /\ c = FromInts(<<1, 1, -1, 1, 0, 0, 1, 0>>)
    /\ \E i \in 1..8 : Flat(3, r)[i] # Float(0)

(***************************************************************************)
(* C9: every operator mixing a value z with a scalar s equals the          *)
(* same-depth operator on z and the embedding of s: z+s, s+z and z-s       *)
(* change the real leaf only, s-z negates every leaf and adds s to the     *)
(* real leaf, z*s, s*z and z/s scale every leaf, and for abs_sq(z) # 0     *)
(* s/z = conj(z) * (s / abs_sq(z)).                                        *)
(***************************************************************************)
Thm_C9_ScalarMixedOperators ==
    /\ op \in {"add_real", "real_add"} =>
          /\ r = Add(d, a, Embed(d, s))
          /\ r = Add(d, Embed(d, s), a)
          /\ Flat(d, r) = [i \in 1..Pow2(d) |->
                IF i = 1 THEN SAdd(Flat(d, a)[i], s) ELSE Flat(d, a)[i]]
    /\ op = "sub_real" =>
          /\ r = Sub(d, a, Embed(d, s))
          /\ Flat(d, r) = [i \in 1..Pow2(d) |->
                IF i = 1 THEN SSub(Flat(d, a)[i], s) ELSE Flat(d, a)[i]]
    /\ op = "real_sub" =>
          /\ r = Sub(d, Embed(d, s), a)
          /\ Flat(d, r) = [i \in 1..Pow2(d) |->
                IF i = 1 THEN SSub(s, Flat(d, a)[i]) ELSE SNeg(Flat(d, a)[i])]
    /\ op \in {"mul_real", "real_mul"} =>
          /\ r = Mul(d, a, Embed(d, s))
          /\ r = Mul(d, Embed(d, s), a)
          /\ Flat(d, r) = Scaled(d, a, s)
    /\ (op = "div_real" /\ s # Float(0)) =>
          /\ r = Div(d, a, Embed(d, s))
          /\ Flat(d, r) = Scaled(d, a, SDiv(Float(1), s))
    /\ (op = "real_div" /\ NonZeroNorm(d, a)) =>
          /\ r = Div(d, Embed(d, s), a)
          /\ Flat(d, r) = Scaled(d, Conj(d, a), SDiv(s, AbsSq(d, a)))

Wit_C9_ScalarMixedOperators ==
    /\ op = "real_sub"
    /\ d = 2
    /\ a = FromInts(<<1, 2, 3, 4>>)
    /\ s = Float(2)
    /\ r = FromInts(<<1, -2, -3, -4>>)

(***************************************************************************)
(* C10: for z of depth n and q of depth n + 1, z + q = q + z =             *)
(* (q.re + z, q.im).                                                       *)
(***************************************************************************)
Thm_C10_CrossDepthAdd ==
    op \in {"add_deeper", "deeper_add"} =>
        /\ r = New(Add(d, b.re, a), b.im)
        /\ r = AddDeeper(d, a, b)
        /\ r = DeeperAdd(d, b, a)
        /\ r.im = b.im
        /\ Flat(d + 1, r) = [i \in 1..Pow2(d + 1) |->
              IF i <= Pow2(d) THEN SAdd(Flat(d + 1, b)[i], Flat(d, a)[i])
              ELSE Flat(d + 1, b)[i]]

Wit_C10_CrossDepthAdd ==
    /\ op = "add_deeper"
    /\ d = 2
    /\ a = FromInts(<<1, 2, 3, 4>>)
    /\ b = FromInts(<<1, 0, 2, 3, 2, 0, 1, 3>>)
    /\ r = FromInts(<<2, 2, 5, 7, 2, 0, 1, 3>>)

(***************************************************************************)
(* C11: for z of depth n and q of depth n + 1, q - z = q - (z, zero()) and *)
(* z - q = (z, zero()) - q, so that z - q = -(q - z).                      *)
(***************************************************************************)
Cex_C11_CrossDepthSub ==
    /\ op = "deeper_sub" => r = Sub(d + 1, b, New(a, Zero(d)))
    /\ op = "sub_deeper" =>
          /\ r = Sub(d + 1, New(a, Zero(d)), b)
          /\ r = Neg(d + 1, DeeperSub(d, b, a))

(***************************************************************************)
(* C12: for abs_sq(b) # 0, a % b = a - b * trunc(a / b) with every leaf    *)
(* of the quotient truncated toward zero and b the left factor; the same   *)
(* holds for scalar % value and value % scalar.                            *)
(***************************************************************************)
Thm_C12_Remainder ==
    /\ (op = "rem" /\ NonZeroNorm(d, b)) =>
          IsRemainder(d, r, a, b, Div(d, a, b))
    /\ (op = "real_rem" /\ NonZeroNorm(d, b)) =>
          /\ IsRemainder(d, r, Embed(d, s), b, Div(d, Embed(d, s), b))
          /\ r = Rem(d, Embed(d, s), b)
    /\ (op = "rem_real" /\ s # Float(0)) =>
          /\ IsRemainder(d, r, a, Embed(d, s), Div(d, a, Embed(d, s)))
          /\ r = Rem(d, a, Embed(d, s))

Wit_C12_Remainder ==
    /\ op = "rem"
    /\ d = 1
    /\ a = FromInts(<<-2, 1>>)
    /\ b = FromInts(<<1, 1>>)
    /\ Div(d, a, b) = New(<<-1, 2>>, <<3, 2>>)
    /\ r = FromInts(<<-1, 0>>)

(***************************************************************************)
(* C13: at depths 1-3 powu(z, n) is z multiplied n times and powu(z, 0)    *)
(* is one(); at depths 1 and 2 powu_tail(z, n, acc) is z^n * acc.          *)
(***************************************************************************)
Thm_C13_PowuIsRepeatedProduct ==
    /\ op = "powu" =>
          /\ r = Times(d, a, num)
          /\ num = 0 => r = One(d)
    /\ (op = "powu_tail" /\ d <= 2) => r = Mul(d, Times(d, a, num), c)

Wit_C13_PowuIsRepeatedProduct ==
    /\ op = "powu_tail"
    /\ d = 2
    /\ num = MaxPow
    /\ Mul(d, a, c) # Mul(d, c, a)
    /\ r # Times(d, a, num)
    /\ r # c

(***************************************************************************)
(* C14: powi(z, 0) is zero(); for n > 0 powi(z, n) is powu(z, n); for      *)
(* n < 0 it is 1 / powu(z, |n|), so powi((0, 1), -3) is (0, 1).            *)
(***************************************************************************)
Thm_C14_Powi ==
    op = "powi" =>
        /\ num = 0 => r = Zero(d)
        /\ num > 0 => r = Times(d, a, num)
        /\ num < 0 =>
              /\ r = RealDiv(d, Float(1), Times(d, a, -num))
              /\ NonZeroNorm(d, a) => Mul(d, r, Times(d, a, -num)) = One(d)
        /\ (d = 1 /\ num = -3 /\ a = FromInts(<<0, 1>>)) =>
              r = FromInts(<<0, 1>>)

Wit_C14_Powi ==
    /\ op = "powi"
    /\ d = 1
    /\ num = -3
    /\ a = FromInts(<<0, 1>>)
    /\ r = FromInts(<<0, 1>>)

(***************************************************************************)
(* C15: sum and product are left folds from zero() and one(), in sequence  *)
(* order; the empty sequence gives zero() and one(); iterating by          *)
(* reference gives the same result as iterating by value.                  *)
(***************************************************************************)
Thm_C15_SumProductLeftFold ==
    /\ op \in {"sum", "sum_ref"} =>
          /\ r = LeftSum(d, items)
          /\ r = Sum(d, items)
          /\ items = <<>> => r = Zero(d)
    /\ op \in {"product", "product_ref"} =>
          /\ r = LeftProduct(d, items)
          /\ r = Product(d, items)
          /\ items = <<>> => r = One(d)

Wit_C15_SumProductLeftFold ==
    /\ op = "product_ref"
    /\ d = 3
    /\ Len(items) = 3
    /\ r = Mul(d, Mul(d, items[1], items[2]), items[3])
    /\ r # Mul(d, items[1], Mul(d, items[2], items[3]))
    /\ r # Mul(d, Mul(d, items[3], items[2]), items[1])

(***************************************************************************)
(* C16: for d in 1..4 and a sequence of exactly 2^d scalars, from_slice    *)
(* gives the value whose i-th flat leaf is the i-th scalar; from_vec gives *)
(* the same value, and both equal the value built by complex!.             *)
(***************************************************************************)
Thm_C16_FromSliceFlatOrder ==
    (d \in 1..4 /\ Len(items) = Pow2(d) /\ op # "init") =>
        /\ op \in {"from_slice", "from_vec"} =>
              /\ Flat(d, r) = items
              /\ r = ComplexMacro(items)
              /\ FromSlice(d, items) = FromVec(d, items)
        /\ op \notin {"from_slice_index_out_of_bounds",
                      "from_vec_index_out_of_bounds"}

Wit_C16_FromSliceFlatOrder ==
    /\ op = "from_vec"
    /\ d = 4
    /\ items = Iota(16)
    /\ r.im.re.im.re = Float(11)

(***************************************************************************)
(* C17: from_slice and from_vec of a sequence whose length differs from    *)
(* 2^d never return a value built from part of the elements and never      *)
(* index out of bounds.                                                    *)
(***************************************************************************)
Cex_C17_LengthMismatchFailsExplicitly ==
    (d >= 1 /\ Len(items) # Pow2(d)) =>
        /\ op \notin {"from_slice", "from_vec"}
        /\ op \notin {"from_slice_index_out_of_bounds",
                      "from_vec_index_out_of_bounds"}

(***************************************************************************)
(* C18: i() at depth 1 is (0, 1); at depths 2..5 i(), j() and k() have     *)
(* exactly one nonzero leaf, a 1, at flat positions 1, 2 and 3; the scalar *)
(* i(), j(), k() are 0.                                                    *)
(***************************************************************************)
Thm_C18_ImaginaryUnits ==
    /\ (d = 1 /\ op = "i") => r = FromInts(<<0, 1>>)
    /\ (d >= 2 /\ op = "i") => HasSingleOneAt(d, r, 1)
    /\ (d >= 2 /\ op = "j") => HasSingleOneAt(d, r, 2)
    /\ (d >= 2 /\ op = "k") => HasSingleOneAt(d, r, 3)
    /\ (d = 2 /\ op = "i") => r = FromInts(<<0, 1, 0, 0>>)
    /\ (d = 2 /\ op = "j") => r = FromInts(<<0, 0, 1, 0>>)
    /\ (d = 2 /\ op = "k") => r = FromInts(<<0, 0, 0, 1>>)
    /\ (d = 0 /\ op \in {"i", "j", "k"}) => r = Float(0)

Wit_C18_ImaginaryUnits ==
    /\ op = "k"
    /\ d = 5
    /\ r.re.re.re.im.im = Float(1)

(***************************************************************************)
(* C19: at depth 1, j() and k() do not return a value; in particular they  *)
(* never return the value of i().                                          *)
(***************************************************************************)
Cex_C19_NoJKAtDepthOne ==
    (d = 1 /\ op \in {"j", "k"}) => r # I(d)

(***************************************************************************)
(* C20 as stated: to_string follows the grammar for every value, with the  *)
(* minus form of an imaginary coefficient exactly when it is not >= 0.     *)
(***************************************************************************)
Cex_C20_DisplayGrammarGeZero ==
    op = "to_string" => r = GrammarGeZero(d, a)

(***************************************************************************)
(* C20 amended: to_string follows the grammar for every value, with the    *)
(* minus form of an imaginary coefficient exactly when its own text starts *)
(* with a minus sign, that is when it is negative or -0.0; NaN takes the   *)
(* plus form.  Complex(1, 2) gives "1 + 2i".                               *)
(***************************************************************************)
Thm_C20_DisplayGrammar ==
    op = "to_string" =>
        /\ r = GrammarSign(d, a)
        /\ (d = 1 /\ a = FromInts(<<1, 2>>)) =>
              r = <<"1", " ", "+", " ", "2", "i">>

Wit_C20_DisplayGrammar ==
    /\ op = "to_string"
    /\ d = 2
    /\ a = ComplexMacro(<<Float(10), Float(-2), <<-1, 2>>, NegZero>>)
    /\ r = <<"1", "0", " ", "-", " ", "2", "i", " ", "-", " ",
             "0", ".", "5", "j", " ", "-", " ", "0", "k">>

(***************************************************************************)
(* C21: for every value z of depth 1 or 2, parsing to_string(z) succeeds   *)
(* and returns z.                                                          *)
(***************************************************************************)
Cex_C21_ParseToStringRoundTrip ==
    op \in {"round_trip", "round_trip_err", "round_trip_panic"} =>
        /\ op = "round_trip"
        /\ r = a

(***************************************************************************)
(* C22: at depths 1 and 2, parsing a text made of a non-empty in-order     *)
(* selection of the parts, each numeral an optionally signed run of        *)
(* digits, returns the value whose coefficient is that numeral for every   *)
(* part present and 0 for every part absent.                               *)
(***************************************************************************)
Cex_C22_ParseMissingPartsDefault ==
    (d <= 2 /\ op # "init") =>
        \A sel \in PartSelections(d) :
            items = PartsText(sel, Pow2(d)) =>
                /\ op = "from_str"
                /\ Flat(d, r) = [i \in 1..Pow2(d) |-> NumeralValue(sel[i])]

(***************************************************************************)
(* C23: parsing a text that is not of the grammar of the target depth      *)
(* returns the error ComplexParseError: from_str does not panic and does   *)
(* not return a value.                                                     *)
(***************************************************************************)
Cex_C23_ParseErrorIsTyped ==
    (d <= 2 /\ op # "init" /\ items \in Malformed(d)) => op = "from_str_err"

(***************************************************************************)
(* C24: at depths 3 and 4, parsing "(X, Y)" with X and Y texts of values   *)
(* of the depth below returns (parse(X), parse(Y)).                        *)
(***************************************************************************)
Cex_C24_ParseNestedPairs ==
    (d >= 3 /\ op # "init") =>
        \A textx, texty \in ValidTexts(d - 1) :
            items = PairText(textx, texty) =>
                /\ op = "from_str"
                /\ r = New(FromStr(d - 1, textx).val[1],
                           FromStr(d - 1, texty).val[1])

(***************************************************************************)
(* C25: when the non-real remainder of the input of exp, or of the         *)
(* normalised input of ln, has magnitude exactly 0, nothing is divided by  *)
(* that magnitude and every non-real leaf of the result is 0:              *)
(* exp(z) = exp(real(z)) * cos(0) and ln(z) = ln(sqrt(abs_sq(z))), for a   *)
(* positive and for a negative real part alike.                            *)
(***************************************************************************)
Thm_C25_ZeroMagnitudeDirection ==
    /\ (op = "exp" /\ NonRealLeavesZero(d, a)) =>
          /\ Flat(d, r) = RealOnly(d, SMul(FExp(Real(d, a), num), FCos(Float(0), num)))
          /\ \A i \in 1..Pow2(d) : IsFinite(Flat(d, r)[i])
    /\ (op = "ln" /\ NonRealLeavesZero(d, a) /\ Real(d, a) # Float(0)) =>
          /\ Flat(d, r) = RealOnly(d, FLn(FSqrt(AbsSq(d, a), num), num))
          /\ \A i \in 1..Pow2(d) : IsFinite(Flat(d, r)[i])

Wit_C25_ZeroMagnitudeDirection ==
    /\ op = "ln"
    /\ d = 1
    /\ a = FromInts(<<-1, 0>>)
    /\ r = FromInts(<<0, 0>>)

Thm_C27_EmbeddingMultiplicative ==
    /\ op = "mul_embedded" => r = New(Mul(d, a, b), Zero(d))
    /\ op = "commutator_embedded" =>
          /\ r = New(Sub(d, Mul(d, a, b), Mul(d, b, a)), Zero(d))
          /\ (d = 2 /\ a = FromInts(<<1, -1, 1, 1>>)
                /\ b = FromInts(<<1, 1, 1, -1>>)) =>
                r = FromInts(<<0, -4, 0, -4, 0, 0, 0, 0>>)

Wit_C27_EmbeddingMultiplicative ==
    /\ op = "commutator_embedded"
    /\ d = 2
    /\ a = FromInts(<<1, -1, 1, 1>>)
    /\ b = FromInts(<<1, 1, 1, -1>>)
    /\ r.re = FromInts(<<0, -4, 0, -4>>)
    /\ r.im = Zero(2)

(***************************************************************************)
(* C28: the depth-2 constants satisfy i*i = j*j = k*k = -one(), i*j = k,   *)
(* j*i = -k, j*k = i, k*i = j and (i*j)*k = -one().                        *)
(***************************************************************************)
Thm_C28_QuaternionRelations ==
    /\ (d = 2 /\ op = "unit_product") =>
          /\ a = b => r = Neg(d, One(d))
          /\ (a = I(d) /\ b = J(d)) => r = K(d)
          /\ (a = J(d) /\ b = I(d)) => r = Neg(d, K(d))
          /\ (a = J(d) /\ b = K(d)) => r = I(d)
          /\ (a = K(d) /\ b = I(d)) => r = J(d)
    /\ (d = 2 /\ op = "unit_triple_product"
          /\ a = I(d) /\ b = J(d) /\ c = K(d)) => r = Neg(d, One(d))

Wit_C28_QuaternionRelations ==
    /\ op = "unit_product"
    /\ d = 2
    /\ a = FromInts(<<0, 0, 1, 0>>)
    /\ b = FromInts(<<0, 1, 0, 0>>)
    /\ r = FromInts(<<0, 0, 0, -1>>)

(***************************************************************************)
(* C29: for every negative i32 n, i32::MIN = -2^31 included, powi(z, n)    *)
(* is 1 / powu(z, |n|): the negation -num overflows nowhere, nothing       *)
(* panics, and for i32::MIN the exponent given to powu is 2^31.            *)
(***************************************************************************)
Cex_C29_PowiNegationNoOverflow ==
    (op # "init" /\ num[1] < 0) =>
        /\ ~NegOverflows(num)
        /\ op = "powi_i32"
        /\ r = RealDiv(d, Float(1), PowuU32(d, a, AbsAsU32(num)))
        /\ num = I32Min => AbsAsU32(num) = <<HalfRange \div 2, 0>>

(***************************************************************************)
(* C30: at depths 1 and 2, for integer-leaved q and b with abs_sq(b) # 0,  *)
(* the remainder of the exact multiple q * b by b is zero:                 *)
(* (q * b) % b == zero().                                                  *)
(***************************************************************************)
Cex_C30_RemainderOfMultipleIsZero ==
    (op = "rem_of_multiple" /\ NonZeroNorm(d, b)) => r = Zero(d)

====
